---- MODULE Spec2Model ----
(***************************************************************************)
(* Arina-BE: the recommendation engine (src/dist/index.mjs, bundled from   *)
(* arina-shared/recommendation-engine), the recommendation service         *)
(* (src/services/recommendation-service.ts) and the MongoDB-backed storage *)
(* it writes through (src/db.ts).                                          *)
(*                                                                         *)
(* Conventions of the translation                                          *)
(*  - a JavaScript object is a TLA+ record whose DOMAIN holds exactly the  *)
(*    properties that are present; a missing property is a missing field;  *)
(*  - a nullable timestamp is <<>> (null) or <<t>> (a Date, t its time);   *)
(*  - numbers of the analysis payloads are integers in a fixed scale that  *)
(*    each rule names; confidences are hundredths (0.7 is 70);             *)
(*  - a string that the code builds by concatenation is the sequence of    *)
(*    its pieces.                                                          *)
(***************************************************************************)
EXTENDS Integers, Sequences, FiniteSets, TLC

VARIABLES
    einput,     \* engine: the input bundle of the call under examination
    eclock,     \* engine: the wall clock readings of that call
    eoutput     \* engine: <<>> before the call, <<result>> after it

evars == <<einput, eclock, eoutput>>

VARIABLES
    recommendation_sets,    \* collection: the stored set rows
    recommendation_items,   \* collection: the stored item rows
    now,                    \* the wall clock of the server
    gens,                   \* number of generateRecommendations calls started
    known,                  \* the ids of the sets that are or were stored
    calls,                  \* the service call each client has in progress
    returned,               \* <<>>, or <<the call that has just ended, with its outcome>>
    handed                  \* the payloads generateRecommendations has returned for
                            \* the sets that are stored

svars == <<recommendation_sets, recommendation_items, now, gens, known, calls, returned, handed>>

vars == <<evars, svars>>

----------------------------------------------------------------------------
(* Generic helpers *)

Has(obj, f) == f \in DOMAIN obj

Min(a, b) == IF a < b THEN a ELSE b

Abs(x) == IF x < 0 THEN -x ELSE x

\* Array.prototype.slice(0, n)
Slice(s, n) == SubSeq(s, 1, Min(n, Len(s)))

RECURSIVE Concat(_)
Concat(ss) == IF ss = <<>> THEN <<>> ELSE Head(ss) \o Concat(Tail(ss))

RECURSIVE SumSeq(_)
SumSeq(s) == IF s = <<>> THEN 0 ELSE Head(s) + SumSeq(Tail(s))

Reverse(s) == [i \in 1..Len(s) |-> s[Len(s) + 1 - i]]

\* the element of a set of one element: Only({ e : x \in {v} }) is e with x
\* standing for the value of v
Only(S) == CHOOSE x \in S : TRUE

\* Insert x at 1-based position p of s.
InsertAt(s, p, x) == SubSeq(s, 1, p - 1) \o <<x>> \o SubSeq(s, p, Len(s))

----------------------------------------------------------------------------
(* Timestamps and the comparators the code sorts with *)

\* a.created_at ? new Date(a.created_at).getTime() : 0
TimeOrZero(created_at) == IF created_at = <<>> THEN 0 ELSE created_at[1]

\* Length of a calendar day in clock units.
DayLen == 2

\* Date.prototype.toDateString(): the calendar day of a time.
toDateString(t) == t \div DayLen

\* sortByRecency and the message sort: newest created_at first
RecencyCmp(a, b) == TimeOrZero(b.created_at) - TimeOrZero(a.created_at)

\* operationalCosts: largest amount first
CostCmp(a, b) == IF Has(a, "amount") /\ Has(b, "amount") THEN b.amount - a.amount ELSE 0

\* a variant that puts the smallest value first
ValueCmp_ascending(a, b) == a.value - b.value

\* variables: largest value first
ValueCmp(a, b) == b.value - a.value

\* first pass of the ranking: newest first
TimeCmp(a, b) == b.createdAt - a.createdAt

\* a variant that puts the later of two candidates of one day and one
\* confidence first
DayCmp_tiesReversed(a, b) ==
    IF toDateString(a.createdAt) = toDateString(b.createdAt)
    THEN IF b.confidence = a.confidence THEN -1 ELSE b.confidence - a.confidence
    ELSE 0

\* a variant that compares by confidence whatever the days
DayCmp_anyDay(a, b) == b.confidence - a.confidence

\* second pass: within a calendar day by confidence, else "equal"
DayCmp(a, b) ==
    IF toDateString(a.createdAt) = toDateString(b.createdAt)
    THEN b.confidence - a.confidence
    ELSE 0

\* the comparator function passed to sort, by name
Compare(compareFn, a, b) ==
    CASE compareFn = "RecencyCmp" -> RecencyCmp(a, b)
      [] compareFn = "CostCmp" -> CostCmp(a, b)
      [] compareFn = "ValueCmp" -> ValueCmp(a, b)
      [] compareFn = "TimeCmp" -> TimeCmp(a, b)
      [] compareFn = "DayCmp" -> DayCmp(a, b)

----------------------------------------------------------------------------
(* Array.prototype.sort(cmp) as the runtime of this build (Node, V8) runs   *)
(* it on arrays of fewer than 64 elements: the leading run is counted (and  *)
(* reversed if strictly descending), then the rest is inserted by binary    *)
(* insertion.  With a consistent comparator this is the stable sort.        *)

ArraySort(s, compareFn) ==
    LET \* CountAndMakeRun: the length of the run that starts at a[1]
        RECURSIVE RunLength(_, _, _)
        RunLength(a, descending, idx) ==
            IF idx > Len(a) THEN Len(a)
            ELSE LET order == Compare(compareFn, a[idx], a[idx - 1]) IN
                 IF descending
                 THEN IF order >= 0 THEN idx - 1 ELSE RunLength(a, descending, idx + 1)
                 ELSE IF order < 0 THEN idx - 1 ELSE RunLength(a, descending, idx + 1)
        \* the place of pivot in the sorted prefix: a[1..left] stay before it
        RECURSIVE BinaryPlace(_, _, _, _)
        BinaryPlace(a, pivot, left, right) ==
            IF left >= right THEN left
            ELSE LET mid == left + ((right - left) \div 2) IN
                 IF Compare(compareFn, pivot, a[mid + 1]) < 0
                 THEN BinaryPlace(a, pivot, left, mid)
                 ELSE BinaryPlace(a, pivot, mid + 1, right)
        \* a[1..start-1] is sorted; insert a[start], a[start+1], ... in turn
        RECURSIVE BinaryInsertionSort(_, _)
        BinaryInsertionSort(a, start) ==
            IF start > Len(a) THEN a
            ELSE LET pivot == a[start]
                     left  == BinaryPlace(a, pivot, 0, start - 1)
                     moved == InsertAt(SubSeq(a, 1, start - 1), left + 1, pivot)
                                \o SubSeq(a, start + 1, Len(a))
                 IN BinaryInsertionSort(moved, start + 1)
    IN IF Len(s) < 2 THEN s
       ELSE LET descending == Compare(compareFn, s[2], s[1]) < 0
                run        == RunLength(s, descending, 3)
                made       == IF descending
                              THEN Reverse(SubSeq(s, 1, run)) \o SubSeq(s, run + 1, Len(s))
                              ELSE s
            IN BinaryInsertionSort(made, run + 1)

sortByRecency(results) == ArraySort(results, "RecencyCmp")

----------------------------------------------------------------------------
(* Text *)

\* `${x}` of a property that may be missing
Str(obj, f) == IF Has(obj, f) THEN obj[f] ELSE "undefined"

RECURSIVE Pow10(_)
Pow10(d) == IF d = 0 THEN 1 ELSE 10 * Pow10(d - 1)

\* decimal digits of n, zero padded to d places
RECURSIVE Padded(_, _)
Padded(n, d) == IF d = 0 THEN <<>> ELSE Padded(n \div 10, d - 1) \o <<ToString(n % 10)>>

\* (num / den).toFixed(d): the pieces of the rendered number
toFixed(num, den, d) ==
    IF den = 0 THEN <<(IF num < 0 THEN "-Infinity" ELSE "Infinity")>>
    ELSE LET scaled == (2 * Abs(num) * Pow10(d) + Abs(den)) \div (2 * Abs(den))
             neg    == ((num < 0) # (den < 0)) /\ scaled # 0
         IN (IF neg THEN <<"-">> ELSE <<>>)
              \o <<ToString(scaled \div Pow10(d)), ".">> \o Padded(scaled % Pow10(d), d)

\* Array.prototype.join(sep) of a sequence of strings
RECURSIVE Join(_, _)
Join(s, sep) ==
    IF s = <<>> THEN <<>>
    ELSE IF Len(s) = 1 THEN <<s[1]>>
    ELSE <<s[1], sep>> \o Join(Tail(s), sep)

\* join(sep) of strings that are themselves sequences of pieces
RECURSIVE JoinPieces(_, _)
JoinPieces(ss, sep) ==
    IF ss = <<>> THEN <<>>
    ELSE IF Len(ss) = 1 THEN ss[1]
    ELSE ss[1] \o <<sep>> \o JoinPieces(Tail(ss), sep)

\* the properties of obj among fs that are present
Pick(obj, fs) == [f \in (fs \cap DOMAIN obj) |-> obj[f]]

\* JavaScript truthiness of a numeric property: present and not 0
Truthy(obj, f) == Has(obj, f) /\ obj[f] # 0

----------------------------------------------------------------------------
(* Business-feasibility extractor.  profitMargin and roi are thousandths    *)
(* (0.25 is 250); amounts and units are whole numbers.                      *)

ProfitMarginMin == 250
RoiMin == 150
MaxPerType == 3

\* a variant with the break-even rule alone, which goes by the units only
BusinessRules_unitsOnly(result) ==
    IF Truthy(result.data, "breakEvenUnits")
    THEN <<[id |-> <<"biz-breakeven-", result.id>>,
            type |-> "business",
            title |-> <<"Favorable Break-Even Point">>,
            description |-> <<"You reach break-even at just ">>,
            confidence |-> 85,
            data |-> Pick(result.data, {"breakEvenUnits", "monthlySalesVolume"}),
            source |-> "analysis"]>>
    ELSE <<>>

\* the candidates of one business_feasibility record, in rule order
BusinessRules(result) ==
    LET data == result.data
        profit ==
            IF Truthy(data, "profitMargin") /\ data.profitMargin > ProfitMarginMin
            THEN <<[id |-> <<"biz-profit-", result.id>>,
                    type |-> "business",
                    title |-> <<"Profitable Business Model">>,
                    description |-> <<"Your ", Str(data, "businessName"),
                                      " shows a strong profit margin of ">>
                                    \o toFixed(data.profitMargin, 10, 1)
                                    \o <<"%. Consider scaling operations while maintaining current cost structure.">>,
                    confidence |-> 80,
                    data |-> Pick(data, {"profitMargin", "roi", "businessName"}),
                    source |-> "analysis"]>>
            ELSE <<>>
        roi ==
            IF Truthy(data, "roi") /\ data.roi > RoiMin
            THEN <<[id |-> <<"biz-roi-", result.id>>,
                    type |-> "business",
                    title |-> <<"Strong Return on Investment">>,
                    description |-> <<"Your investment in ", Str(data, "businessName"), " shows a ">>
                                    \o toFixed(data.roi, 10, 1)
                                    \o <<"% ROI. Consider additional investment in similar ventures.">>,
                    confidence |-> 75,
                    data |-> Pick(data, {"roi", "paybackPeriod"}),
                    source |-> "analysis"]>>
            ELSE <<>>
        cost ==
            IF Has(data, "operationalCosts") /\ Len(data.operationalCosts) > 0
            THEN LET sortedCosts == ArraySort(data.operationalCosts, "CostCmp")
                     highestCost == sortedCosts[1]
                     allAmounts  == \A i \in 1..Len(sortedCosts) : Has(sortedCosts[i], "amount")
                     total       == SumSeq([i \in 1..Len(sortedCosts) |-> sortedCosts[i].amount])
                     \* costPercentage > 0.3; a NaN (a missing amount, 0/0) compares false
                     over        == /\ allAmounts
                                    /\ \/ total > 0 /\ 10 * highestCost.amount > 3 * total
                                       \/ total < 0 /\ 10 * highestCost.amount < 3 * total
                                       \/ total = 0 /\ highestCost.amount > 0
                 IN IF over
                    THEN <<[id |-> <<"biz-cost-", result.id>>,
                            type |-> "resource",
                            title |-> <<"Cost Reduction Opportunity">>,
                            description |-> <<Str(highestCost, "name"), " represents ">>
                                            \o toFixed(100 * highestCost.amount, total, 1)
                                            \o <<"% of your operational costs. Reducing this could significantly improve profitability.">>,
                            confidence |-> 70,
                            data |-> [costName |-> Str(highestCost, "name"),
                                      costAmount |-> highestCost.amount],
                            source |-> "analysis"]>>
                    ELSE <<>>
            ELSE <<>>
        breakEven ==
            IF Truthy(data, "breakEvenUnits") /\ Truthy(data, "monthlySalesVolume")
            THEN LET under == \/ data.monthlySalesVolume > 0
                                 /\ 2 * data.breakEvenUnits < data.monthlySalesVolume
                              \/ data.monthlySalesVolume < 0
                                 /\ 2 * data.breakEvenUnits > data.monthlySalesVolume
                 IN IF under
                    THEN <<[id |-> <<"biz-breakeven-", result.id>>,
                            type |-> "business",
                            title |-> <<"Favorable Break-Even Point">>,
                            description |-> <<"You reach break-even at just ">>
                                            \o toFixed(100 * data.breakEvenUnits, data.monthlySalesVolume, 1)
                                            \o <<"% of your monthly sales volume. This gives you a safety margin in market fluctuations.">>,
                            confidence |-> 85,
                            data |-> Pick(data, {"breakEvenUnits", "monthlySalesVolume"}),
                            source |-> "analysis"]>>
                    ELSE <<>>
            ELSE <<>>
    IN profit \o roi \o cost \o breakEven

\* a variant that reads every record of the type
Recent_all(results, type) ==
    sortByRecency(SelectSeq(results, LAMBDA r : r.type = type))

\* The records of one type an extractor reads: the three most recent.
Recent(results, type) ==
    Slice(sortByRecency(SelectSeq(results, LAMBDA r : r.type = type)), MaxPerType)

\* const data = result.data; data.x throws a TypeError on a record without data
Threw(recent) == \E i \in 1..Len(recent) : ~Has(recent[i], "data")

\* An extractor's outcome: threw, or the candidates in the order they were
\* pushed.
extractBusinessRecommendations(results) ==
    Only({ [threw |-> Threw(recent),
            recs  |-> IF Threw(recent) THEN <<>>
                      ELSE Concat([i \in 1..Len(recent) |-> BusinessRules(recent[i])])]
           : recent \in {Recent(results, "business_feasibility")} })

----------------------------------------------------------------------------
(* Demand-forecast extractor.  Forecasts and historical values are whole    *)
(* numbers; mape is in percent.                                             *)

MapeHigh == 10
MapeLow == 20
MinPeaks == 2

\* a variant that takes a rate of exactly one tenth for growth
GrowthRateOver_orEqual(diff, firstForecast) ==
    \/ firstForecast > 0 /\ 10 * diff >= firstForecast
    \/ firstForecast < 0 /\ 10 * diff <= firstForecast
    \/ firstForecast = 0 /\ diff > 0

\* growthRate > 0.1, where growthRate = diff / firstForecast (an infinity when
\* firstForecast is 0 and diff is not, NaN when both are)
GrowthRateOver(diff, firstForecast) ==
    \/ firstForecast > 0 /\ 10 * diff > firstForecast
    \/ firstForecast < 0 /\ 10 * diff < firstForecast
    \/ firstForecast = 0 /\ diff > 0

\* growthRate < -0.1
GrowthRateUnder(diff, firstForecast) ==
    \/ firstForecast > 0 /\ 10 * diff < -firstForecast
    \/ firstForecast < 0 /\ 10 * diff > -firstForecast
    \/ firstForecast = 0 /\ diff < 0

ForecastRules(result) ==
    LET data == result.data
        trend ==
            IF Has(data, "forecasted") /\ Len(data.forecasted) > 1
            THEN LET f0 == data.forecasted[1]
                     fN == data.forecasted[Len(data.forecasted)]
                     defined == Has(f0, "forecast") /\ Has(fN, "forecast")
                     firstForecast == f0.forecast
                     lastForecast  == fN.forecast
                     diff == lastForecast - firstForecast
                     \* growthRate = diff / firstForecast, NaN without the two forecasts
                     growth == defined /\ GrowthRateOver(diff, firstForecast)
                     decline == defined /\ GrowthRateUnder(diff, firstForecast)
                 IN IF growth
                    THEN <<[id |-> <<"forecast-growth-", result.id>>,
                            type |-> "market",
                            title |-> <<"Growing Demand Trend">>,
                            description |-> <<"Demand for ", Str(data, "productName"),
                                              " is projected to grow by ">>
                                            \o toFixed(100 * diff, firstForecast, 1)
                                            \o <<"% over the forecast period. Consider increasing production capacity.">>,
                            confidence |-> 75,
                            data |-> [firstForecast |-> firstForecast,
                                      lastForecast |-> lastForecast],
                            source |-> "analysis"]>>
                    ELSE IF decline
                    THEN <<[id |-> <<"forecast-decline-", result.id>>,
                            type |-> "market",
                            title |-> <<"Declining Demand Alert">>,
                            description |-> <<"Demand for ", Str(data, "productName"),
                                              " is projected to decline by ">>
                                            \o toFixed(100 * Abs(diff), Abs(firstForecast), 1)
                                            \o <<"% over the forecast period. Consider diversifying your product mix.">>,
                            confidence |-> 75,
                            data |-> [firstForecast |-> firstForecast,
                                      lastForecast |-> lastForecast],
                            source |-> "analysis"]>>
                    ELSE <<>>
            ELSE <<>>
        seasonal ==
            IF Has(data, "chart") /\ Has(data.chart, "historical")
            THEN LET hist == data.chart.historical
                     n    == Len(hist)
                     defined == n > 0 /\ \A i \in 1..n : Has(hist[i], "value")
                     total == SumSeq([i \in 1..n |-> hist[i].value])
                     \* v > avg * 1.2, avg = total / n; with a NaN average nothing is a peak
                     peaks == IF defined
                              THEN Cardinality({i \in 1..n : 5 * n * hist[i].value > 6 * total})
                              ELSE 0
                 IN IF peaks >= MinPeaks
                    THEN <<[id |-> <<"forecast-seasonal-", result.id>>,
                            type |-> "market",
                            title |-> <<"Seasonal Demand Pattern">>,
                            description |-> <<Str(data, "productName"),
                                              " shows seasonal demand patterns with ",
                                              ToString(peaks),
                                              " peak periods. Plan inventory and production to align with these patterns.">>,
                            confidence |-> 70,
                            data |-> [peakPeriods |-> peaks],
                            source |-> "pattern"]>>
                    ELSE <<>>
            ELSE <<>>
        accuracy ==
            IF Has(data, "accuracy")
            THEN IF Truthy(data.accuracy, "mape") /\ data.accuracy.mape < MapeHigh
                 THEN <<[id |-> <<"forecast-accuracy-", result.id>>,
                         type |-> "business",
                         title |-> <<"High Forecast Reliability">>,
                         description |-> <<"Your ", Str(data, "productName"),
                                           " forecast has a high accuracy (MAPE: ">>
                                         \o toFixed(data.accuracy.mape, 1, 1)
                                         \o <<"%). Use this forecast with confidence for planning.">>,
                         confidence |-> 80,
                         data |-> [mape |-> data.accuracy.mape],
                         source |-> "analysis"]>>
                 ELSE IF Truthy(data.accuracy, "mape") /\ data.accuracy.mape > MapeLow
                 THEN <<[id |-> <<"forecast-inaccuracy-", result.id>>,
                         type |-> "business",
                         title |-> <<"Forecast Uncertainty Alert">>,
                         description |-> <<"Your ", Str(data, "productName"),
                                           " forecast has a higher error rate (MAPE: ">>
                                         \o toFixed(data.accuracy.mape, 1, 1)
                                         \o <<"%). Consider using more historical data or adjusting your forecast method.">>,
                         confidence |-> 70,
                         data |-> [mape |-> data.accuracy.mape],
                         source |-> "analysis"]>>
                 ELSE <<>>
            ELSE <<>>
    IN trend \o seasonal \o accuracy

extractForecastRecommendations(results) ==
    Only({ [threw |-> Threw(recent),
            recs  |-> IF Threw(recent) THEN <<>>
                      ELSE Concat([i \in 1..Len(recent) |-> ForecastRules(recent[i])])]
           : recent \in {Recent(results, "demand_forecast")} })

----------------------------------------------------------------------------
(* Optimization extractor.  Variable values are whole numbers; slack is in  *)
(* units of 1e-4, so that |slack| < 1e-3 reads |slack| < 10.                *)

SlackEps == 10
TopVariables == 3

\* a variant that tests !data.feasible in place of data.feasible === false
Feasibility_falsy(data) ==
    IF Has(data, "feasible") /\ data.feasible = TRUE THEN "feasible" ELSE "infeasible"

\* data.feasible === true / data.feasible === false / neither
Feasibility(data) ==
    IF Has(data, "feasible") /\ data.feasible = TRUE THEN "feasible"
    ELSE IF Has(data, "feasible") /\ data.feasible = FALSE THEN "infeasible"
    ELSE "neither"

OptimizationRules(result) ==
    LET data == result.data
        objective ==
            IF Truthy(data, "objectiveValue")
            THEN <<"an objective value of ">> \o toFixed(data.objectiveValue, 1, 2)
            ELSE <<"optimized resource allocation">>
        feasible ==
            <<[id |-> <<"opt-feasible-", result.id>>,
               type |-> "resource",
               title |-> <<"Optimal Resource Allocation">>,
               description |-> <<"Your ", Str(data, "name"),
                                 " optimization model has a feasible solution with ">>
                               \o objective \o <<".">>,
               confidence |-> 90,
               data |-> Pick(data, {"objectiveValue"}),
               source |-> "analysis"]>>
        resources ==
            IF Has(data, "variables")
            THEN LET positive == SelectSeq(data.variables,
                                        LAMBDA v : Has(v, "value") /\ v.value > 0)
                     significantVariables ==
                         Slice(ArraySort(positive, "ValueCmp"), TopVariables)
                     varList == JoinPieces([i \in 1..Len(significantVariables) |->
                                    <<Str(significantVariables[i], "name"), ": ">>
                                      \o toFixed(significantVariables[i].value, 1, 2)], ", ")
                 IN IF Len(significantVariables) > 0
                    THEN <<[id |-> <<"opt-resources-", result.id>>,
                            type |-> "resource",
                            title |-> <<"Key Resource Allocation">>,
                            description |-> <<"Focus on these resources for optimal results: ">>
                                            \o varList,
                            confidence |-> 80,
                            data |-> [topResources |-> significantVariables],
                            source |-> "analysis"]>>
                    ELSE <<>>
            ELSE <<>>
        bottlenecks ==
            IF Has(data, "constraints")
            THEN LET binding == SelectSeq(data.constraints,
                                       LAMBDA c : Has(c, "slack")
                                                  /\ (c.slack = 0 \/ Abs(c.slack) < SlackEps))
                     bindingConstraints == [i \in 1..Len(binding) |-> Str(binding[i], "name")]
                 IN IF Len(bindingConstraints) > 0
                    THEN <<[id |-> <<"opt-constraints-", result.id>>,
                            type |-> "business",
                            title |-> <<"Resource Bottlenecks Identified">>,
                            description |-> <<"These factors are limiting your optimization: ">>
                                            \o Join(bindingConstraints, ", ")
                                            \o <<". Consider increasing these resources.">>,
                            confidence |-> 85,
                            data |-> [bindingConstraints |-> bindingConstraints],
                            source |-> "analysis"]>>
                    ELSE <<>>
            ELSE <<>>
        infeasible ==
            <<[id |-> <<"opt-infeasible-", result.id>>,
               type |-> "business",
               title |-> <<"Resource Constraints Too Tight">>,
               description |-> <<"Your ", Str(data, "name"),
                                 " optimization model doesn't have a feasible solution. Consider relaxing some constraints or adding more resources.">>,
               confidence |-> 90,
               data |-> [optimizationName |-> Str(data, "name")],
               source |-> "analysis"]>>
    IN IF Feasibility(data) = "feasible"
       THEN feasible \o resources \o bottlenecks
       ELSE IF Feasibility(data) = "infeasible"
       THEN infeasible
       ELSE <<>>

extractOptimizationRecommendations(results) ==
    Only({ [threw |-> Threw(recent),
            recs  |-> IF Threw(recent) THEN <<>>
                      ELSE Concat([i \in 1..Len(recent) |-> OptimizationRules(recent[i])])]
           : recent \in {Recent(results, "optimization")} })

----------------------------------------------------------------------------
(* Chat-insight extractor.  A message content is the sequence of its        *)
(* sentences (what split(/[.!?]+/) yields); a sentence is its trimmed text   *)
(* and the set of keywords its lower-cased text includes.  No keyword holds  *)
(* a sentence delimiter, so the content includes a keyword exactly when one  *)
(* of its sentences does.                                                    *)

keywordMap ==
    << <<"increase", "growth">>, <<"expand", "growth">>, <<"grow", "growth">>,
       <<"profit", "profit">>, <<"revenue", "profit">>,
       <<"cost", "cost">>, <<"expense", "cost">>, <<"save", "cost">>,
       <<"risk", "risk">>,
       <<"market", "market">>, <<"demand", "market">>, <<"customer", "market">>,
       <<"season", "seasonal">>, <<"weather", "seasonal">>, <<"climate", "seasonal">>,
       <<"resource", "resource">>, <<"water", "resource">>, <<"soil", "resource">>,
       <<"fertilizer", "resource">>, <<"pest", "resource">>, <<"equipment", "resource">> >>

categories == <<"growth", "profit", "cost", "risk", "market", "seasonal", "resource">>

MaxChatMessages == 10

CategoryType(category) ==
    CASE category \in {"growth", "profit"} -> "business"
      [] category \in {"market", "seasonal"} -> "market"
      [] category \in {"resource", "cost"} -> "resource"
      [] OTHER -> "business"

CategoryTitle(category) ==
    CASE category = "growth" -> "Growth Opportunity"
      [] category = "profit" -> "Profit Enhancement"
      [] category = "cost" -> "Cost Saving Opportunity"
      [] category = "risk" -> "Risk Management"
      [] category = "market" -> "Market Intelligence"
      [] category = "seasonal" -> "Seasonal Planning"
      [] category = "resource" -> "Resource Optimization"
      [] OTHER -> "AI Insight"

\* what one message pushes to the bucket of category, keyword by keyword
MessagePushes(message, category) ==
    Concat([k \in 1..Len(keywordMap) |->
        LET keyword == keywordMap[k][1]
            relevantSentences == SelectSeq(message.content, LAMBDA s : keyword \in s.kw)
        IN IF keywordMap[k][2] = category /\ Len(relevantSentences) > 0
           THEN <<relevantSentences[1].text>>
           ELSE <<>>])

\* a variant that reads the messages of every role
RecentMessages_anyRole(messages) ==
    Slice(ArraySort(messages, "RecencyCmp"), MaxChatMessages)

\* the messages the extractor reads: the ten most recent of the assistant
RecentMessages(messages) ==
    Slice(ArraySort(SelectSeq(messages, LAMBDA m : m.role = "assistant"), "RecencyCmp"),
          MaxChatMessages)

extractChatInsights(messages) ==
    LET recentMessages == RecentMessages(messages)
        threw == \E i \in 1..Len(recentMessages) : ~Has(recentMessages[i], "content")
        bucket(category) ==
            Concat([i \in 1..Len(recentMessages) |->
                        MessagePushes(recentMessages[i], category)])
        insight(category) ==
            LET sentences == bucket(category) IN
            IF Len(sentences) > 0
            THEN <<[id |-> <<"chat-", category, "-">>,
                    type |-> CategoryType(category),
                    title |-> <<CategoryTitle(category)>>,
                    description |-> <<sentences[1]>>,
                    confidence |-> 60,
                    data |-> [category |-> category, relatedSentences |-> sentences],
                    source |-> "chat"]>>
            ELSE <<>>
    IN [threw |-> threw,
        recs  |-> IF threw THEN <<>>
                  ELSE Concat([c \in 1..Len(categories) |-> insight(categories[c])])]

----------------------------------------------------------------------------
(* Seasonal advisor.  "none" stands for an absent currentSeason.            *)

Seasons == {"spring", "summer", "fall", "winter"}

seasonalCrops ==
    [spring |-> <<"Corn", "Soybeans", "Rice", "Cotton", "Vegetables">>,
     summer |-> <<"Sunflower", "Sorghum", "Millet", "Vegetables", "Fruits">>,
     fall   |-> <<"Winter Wheat", "Barley", "Rapeseed", "Root vegetables">>,
     winter |-> <<"Planning", "Equipment maintenance", "Soil preparation">>]

seasonalActivities ==
    [spring |-> <<"Planting", "Soil preparation", "Fertilizing", "Pest management planning">>,
     summer |-> <<"Irrigation management", "Pest control", "Crop monitoring", "Early harvest planning">>,
     fall   |-> <<"Harvesting", "Storage preparation", "Market research", "Winter crop planting">>,
     winter |-> <<"Equipment maintenance", "Financial planning", "Education", "Crop planning">>]

\* currentSeason.charAt(0).toUpperCase() + currentSeason.slice(1)
Capitalized(season) ==
    CASE season = "spring" -> "Spring"
      [] season = "summer" -> "Summer"
      [] season = "fall" -> "Fall"
      [] season = "winter" -> "Winter"

\* a variant that proposes the crops only
addSeasonalRecommendations_cropsOnly(currentSeason) ==
    IF currentSeason = "none" THEN <<>>
    ELSE << [id |-> <<"seasonal-crop-">>,
             type |-> "crop",
             title |-> <<Capitalized(currentSeason), " Crop Recommendations">>,
             description |-> <<"Consider focusing on these crops this ", currentSeason, ": ">>
                             \o Join(seasonalCrops[currentSeason], ", ") \o <<".">>,
             confidence |-> 70,
             data |-> [season |-> currentSeason,
                       recommendedCrops |-> seasonalCrops[currentSeason]],
             source |-> "seasonal"] >>

addSeasonalRecommendations(currentSeason) ==
    IF currentSeason = "none" THEN <<>>
    ELSE << [id |-> <<"seasonal-crop-">>,
             type |-> "crop",
             title |-> <<Capitalized(currentSeason), " Crop Recommendations">>,
             description |-> <<"Consider focusing on these crops this ", currentSeason, ": ">>
                             \o Join(seasonalCrops[currentSeason], ", ") \o <<".">>,
             confidence |-> 70,
             data |-> [season |-> currentSeason,
                       recommendedCrops |-> seasonalCrops[currentSeason]],
             source |-> "seasonal"],
            [id |-> <<"seasonal-activity-">>,
             type |-> "business",
             title |-> <<Capitalized(currentSeason), " Activity Focus">>,
             description |-> <<"Key activities for this ", currentSeason, ": ">>
                             \o Join(seasonalActivities[currentSeason], ", ") \o <<".">>,
             confidence |-> 70,
             data |-> [season |-> currentSeason,
                       recommendedActivities |-> seasonalActivities[currentSeason]],
             source |-> "seasonal"] >>

----------------------------------------------------------------------------
(* Aggregator / ranker and engine entry point.                              *)
(*                                                                          *)
(* A clock is what new Date() and Date.now() read during one synchronous    *)
(* call: t0 at its start, advanced by one unit just before the creations    *)
(* whose index is in ticks.  The extractors run in merge order, so the      *)
(* i-th candidate of the merged list is the i-th one created.               *)

MaxCandidates == 10
SummaryTop == 5

Fallback ==
    <<"Insufficient data for personalized recommendations. Continue using Arina to analyze your agricultural business for tailored insights.">>

ClockAt(clk, i) == clk.t0 + Cardinality({j \in clk.ticks : j <= i})

\* the candidates as created: createdAt is new Date(); the ids of the chat and
\* seasonal candidates end with Date.now()
Created(recs, clk) ==
    [i \in 1..Len(recs) |->
        [id |-> IF recs[i].source \in {"chat", "seasonal"}
                THEN recs[i].id \o <<ToString(ClockAt(clk, i))>>
                ELSE recs[i].id,
         type |-> recs[i].type,
         title |-> recs[i].title,
         description |-> recs[i].description,
         confidence |-> recs[i].confidence,
         data |-> recs[i].data,
         source |-> recs[i].source,
         createdAt |-> ClockAt(clk, i)]]

\* a variant that leaves out the second sort
Rank_timeOnly(all) == ArraySort(all, "TimeCmp")

\* the two sorts of the merged list
Rank(all) == ArraySort(ArraySort(all, "TimeCmp"), "DayCmp")

\* a variant that finds the last candidate of the type
FindType_last(recs, type) == Slice(Reverse(SelectSeq(recs, LAMBDA r : r.type = type)), 1)

\* Array.prototype.find by type: <<>> when there is none, else <<the first>>
FindType(recs, type) == Slice(SelectSeq(recs, LAMBDA r : r.type = type), 1)

\* a variant that counts among the records the extractors were given
CountType_evaluated(results, type) ==
    Len(SelectSeq(Slice(sortByRecency(results), MaxCandidates), LAMBDA r : r.type = type))

CountType(results, type) == Len(SelectSeq(results, LAMBDA r : r.type = type))

\* the candidates of all sources in merge order, or a throw
Merged(input) ==
    Only({ Only({ [threw |-> businessRecs.threw \/ forecastRecs.threw
                               \/ optimizationRecs.threw \/ chatRecs.threw,
                   recs  |-> businessRecs.recs \o forecastRecs.recs \o optimizationRecs.recs
                               \o chatRecs.recs \o seasonalRecs]
                  : businessRecs \in {extractBusinessRecommendations(sortedResults)},
                    forecastRecs \in {extractForecastRecommendations(sortedResults)},
                    optimizationRecs \in {extractOptimizationRecommendations(sortedResults)},
                    chatRecs \in {extractChatInsights(input.chatHistory)},
                    seasonalRecs \in {addSeasonalRecommendations(input.currentSeason)} })
           : sortedResults \in {Slice(sortByRecency(input.analysisResults), MaxCandidates)} })

\* a variant that always writes the list form of the summary
Summary_listOnly(input, finalRecommendations) ==
    <<"Based on your historical data, we recommend: ">>

Summary(input, finalRecommendations) ==
    LET topRecs == Slice(finalRecommendations, SummaryTop)
        sentence(type) ==
            LET rec == FindType(topRecs, type) IN
            IF rec = <<>> THEN <<>> ELSE rec[1].title \o <<". ">>
        business     == CountType(input.analysisResults, "business_feasibility")
        forecast     == CountType(input.analysisResults, "demand_forecast")
        optimization == CountType(input.analysisResults, "optimization")
        opening ==
            IF business > 0 \/ forecast > 0 \/ optimization > 0
            THEN <<"Based on your ">>
                 \o (IF business > 0 THEN <<"business feasibility analysis, ">> ELSE <<>>)
                 \o (IF forecast > 0 THEN <<"demand forecasting, ">> ELSE <<>>)
                 \o (IF optimization > 0 THEN <<"optimization analysis, ">> ELSE <<>>)
                 \o <<"we recommend: ">>
            ELSE <<"Based on your historical data, we recommend: ">>
        closing ==
            IF input.currentSeason # "none"
            THEN <<"Consider adjusting your strategy for the ", input.currentSeason, " season.">>
            ELSE <<>>
    IN IF Len(topRecs) > 0
       THEN opening \o sentence("business") \o sentence("market")
              \o sentence("resource") \o sentence("crop") \o closing
       ELSE Fallback

\* a variant that keeps every ranked candidate
TopCandidates_all(allRecommendations) == allRecommendations

\* allRecommendations.slice(0, 10)
TopCandidates(allRecommendations) == Slice(allRecommendations, MaxCandidates)

generateRecommendations(input, clk) ==
    Only({ Only({ IF merged.threw
                  THEN [ok |-> FALSE, error |-> "TypeError"]
                  ELSE [ok |-> TRUE,
                        id |-> <<"rec-set-", ToString(returnedAt)>>,
                        userId |-> input.userId,
                        recommendations |-> finalRecommendations,
                        summary |-> Summary(input, finalRecommendations),
                        createdAt |-> returnedAt]
                  : finalRecommendations \in {TopCandidates(Rank(Created(merged.recs, clk)))},
                    returnedAt \in {ClockAt(clk, Len(merged.recs) + 1)} })
           : merged \in {Merged(input)} })

----------------------------------------------------------------------------
(* The inputs the engine is examined on.                                    *)

MaxResults == 3

BizStrong ==
    [businessName |-> "Rice Mill", profitMargin |-> 300, roi |-> 200, paybackPeriod |-> 2,
     operationalCosts |-> <<[name |-> "Seed", amount |-> 40], [name |-> "Labor", amount |-> 60]>>,
     breakEvenUnits |-> 40, monthlySalesVolume |-> 100]

FcGrowing ==
    [productName |-> "Rice",
     forecasted |-> <<[forecast |-> 100], [forecast |-> 105], [forecast |-> 120]>>,
     chart |-> [historical |-> <<[value |-> 10], [value |-> 10], [value |-> 10],
                                 [value |-> 30], [value |-> 30]>>],
     accuracy |-> [mape |-> 5]]

FcFlat ==
    [productName |-> "Corn",
     forecasted |-> <<[forecast |-> 100], [forecast |-> 110]>>,
     accuracy |-> [mape |-> 15]]

OptFeasible ==
    [name |-> "Land Use", feasible |-> TRUE, objectiveValue |-> 1200,
     variables |-> <<[name |-> "x1", value |-> 0], [name |-> "x2", value |-> 5],
                     [name |-> "x3", value |-> 9]>>,
     constraints |-> <<[name |-> "water", slack |-> 0], [name |-> "labor", slack |-> 250]>>]

OptInfeasible == [name |-> "Budget", feasible |-> FALSE]

\* the records a list is drawn from, without their id; the last has no data
ResultKinds ==
    { [type |-> "business_feasibility", created_at |-> <<3>>, data |-> BizStrong],
      [type |-> "demand_forecast", created_at |-> <<1>>, data |-> FcGrowing],
      [type |-> "demand_forecast", created_at |-> <<2>>, data |-> FcFlat],
      [type |-> "optimization", created_at |-> <<>>, data |-> OptFeasible],
      [type |-> "optimization", created_at |-> <<2>>, data |-> OptInfeasible],
      [type |-> "business_feasibility", created_at |-> <<1>>] }

\* the i-th record of a list: the kind with its own id
AnalysisResult(kind, i) ==
    [f \in DOMAIN kind \cup {"id"} |-> IF f = "id" THEN <<"r", ToString(i)>> ELSE kind[f]]

ResultLists ==
    UNION { { [i \in 1..n |-> AnalysisResult(ks[i], i)] : ks \in [1..n -> ResultKinds] }
            : n \in 0..MaxResults }

Advice ==
    [id |-> <<"m1">>, role |-> "assistant", created_at |-> <<2>>,
     content |-> <<[text |-> "You should expand into the local market",
                    kw |-> {"expand", "market"}],
                   [text |-> "Save water to cut cost", kw |-> {"save", "water", "cost"}]>>]

Question ==
    [id |-> <<"m2">>, role |-> "user", created_at |-> <<1>>,
     content |-> <<[text |-> "How do I grow my profit", kw |-> {"grow", "profit"}]>>]

Greeting ==
    [id |-> <<"m3">>, role |-> "assistant", created_at |-> <<>>,
     content |-> <<[text |-> "Hello", kw |-> {}]>>]

NoContent == [id |-> <<"m4">>, role |-> "assistant", created_at |-> <<3>>]

ChatHistories ==
    { <<>>, <<Question, Greeting>>, <<Question, Advice>>, <<Advice, NoContent>> }

\* one answer that touches every category
Survey ==
    [id |-> <<"m8">>, role |-> "assistant", created_at |-> <<4>>,
     content |-> <<[text |-> "Grow your herd", kw |-> {"grow"}],
                   [text |-> "Revenue is up", kw |-> {"revenue"}],
                   [text |-> "Cut each expense", kw |-> {"expense"}],
                   [text |-> "Mind the risk", kw |-> {"risk"}],
                   [text |-> "Ask a customer", kw |-> {"customer"}],
                   [text |-> "Watch the weather", kw |-> {"weather"}],
                   [text |-> "Test the soil", kw |-> {"soil"}]>>]

\* more answers than the extractor reads: the i-th was created at time i, the
\* oldest alone is about risk, the others about the market
Answer(i) ==
    [id |-> <<"n", ToString(i)>>, role |-> "assistant", created_at |-> <<i>>,
     content |-> IF i = 1
                 THEN <<[text |-> "Mind the risk", kw |-> {"risk"}]>>
                 ELSE <<[text |-> "Demand is steady", kw |-> {"demand"}]>>]

Answers == [i \in 1..(MaxChatMessages + 1) |-> Answer(i)]

\* the histories the chat extractor is examined on: the answers oldest first
\* and newest first, with a later question about profit, and the survey
LongChats ==
    { Answers \o <<[Question EXCEPT !.created_at = <<MaxChatMessages + 2>>]>>,
      <<[Question EXCEPT !.created_at = <<MaxChatMessages + 2>>]>> \o Reverse(Answers),
      SubSeq(Answers, 2, MaxChatMessages + 1),
      <<Question, Survey>>,
      <<Survey, Advice, Greeting>> }

Clocks ==
    { [t0 |-> t, ticks |-> k] : t \in {0, DayLen - 1}, k \in {{}, {2}} }

\* payloads with some of the fields the rules read, and with values on and
\* next to the thresholds
BusinessPayloads ==
    { [businessName |-> "Farm"],
      [businessName |-> "Farm", profitMargin |-> 300],
      [businessName |-> "Farm", profitMargin |-> 250],
      [businessName |-> "Farm", roi |-> 200],
      [operationalCosts |-> <<>>],
      [operationalCosts |-> <<[name |-> "Seed"], [name |-> "Labor", amount |-> 60]>>],
      [operationalCosts |-> <<[name |-> "Seed", amount |-> 40], [name |-> "Labor", amount |-> 60]>>],
      [breakEvenUnits |-> 40],
      [monthlySalesVolume |-> 100],
      [breakEvenUnits |-> 40, monthlySalesVolume |-> 100] }

ForecastPayloads ==
    { [productName |-> "Rice",
       forecasted |-> <<[forecast |-> first], [forecast |-> first + change]>>] :
         first \in {100, -100}, change \in {-11, -10, 0, 10, 11} }
    \cup
    { [productName |-> "Rice", forecasted |-> <<[forecast |-> 100], [forecast |-> 500], [forecast |-> 110]>>],
      [productName |-> "Rice", forecasted |-> <<[forecast |-> 100], [forecast |-> 1], [forecast |-> 111]>>],
      [productName |-> "Rice", forecasted |-> <<[forecast |-> 100]>>],
      [productName |-> "Rice", forecasted |-> <<>>],
      [productName |-> "Rice", forecasted |-> <<[period |-> 1], [period |-> 2]>>],
      [productName |-> "Rice"],
      [productName |-> "Rice", chart |-> [title |-> "Sales"]],
      [productName |-> "Rice", chart |-> [historical |-> <<[period |-> 1], [value |-> 3]>>]],
      [productName |-> "Rice", accuracy |-> [rmse |-> 3]],
      [productName |-> "Rice", accuracy |-> [mape |-> 25]] }
    \cup
    { [productName |-> "Rice", accuracy |-> [mape |-> mape]] : mape \in {0, 9, 10, 20, 21} }

OptimizationPayloads ==
    { [name |-> "Budget", feasible |-> FALSE, objectiveValue |-> 1200,
       variables |-> <<[name |-> "x1", value |-> 5]>>,
       constraints |-> <<[name |-> "water", slack |-> 0]>>],
      [name |-> "Budget", objectiveValue |-> 1200,
       variables |-> <<[name |-> "x1", value |-> 5]>>,
       constraints |-> <<[name |-> "water", slack |-> 0]>>],
      [name |-> "Budget"],
      [name |-> "Budget", feasible |-> TRUE],
      [name |-> "Budget", feasible |-> TRUE,
       variables |-> <<[name |-> "x1"]>>, constraints |-> <<[name |-> "water"]>>] }

\* feasible solutions: more than three positive variables, equal values, no
\* positive variable, no variable; slacks at and next to 1e-3 on either side
\* of zero
FeasiblePayloads ==
    { [name |-> "Land Use", feasible |-> TRUE, variables |-> variables,
       constraints |-> constraints] :
        variables \in
          { <<[name |-> "x1", value |-> 5], [name |-> "x2", value |-> 9],
              [name |-> "x3", value |-> 2], [name |-> "x4", value |-> 7],
              [name |-> "x5", value |-> -1]>>,
            <<[name |-> "x1", value |-> 4], [name |-> "x2", value |-> 6],
              [name |-> "x3", value |-> 4], [name |-> "x4", value |-> 4]>>,
            <<[name |-> "x1", value |-> 2], [name |-> "x2", value |-> 8]>>,
            <<[name |-> "x1", value |-> 0], [name |-> "x2", value |-> -3]>>,
            <<>> },
        constraints \in
          { <<[name |-> "water", slack |-> 250], [name |-> "labor", slack |-> 9]>>,
            <<[name |-> "water", slack |-> -9]>>,
            <<[name |-> "water", slack |-> 10], [name |-> "labor", slack |-> -10]>>,
            <<[name |-> "water", slack |-> 0], [name |-> "labor", slack |-> 0]>>,
            <<>> } }

\* a list of one record for each of these payloads, and for no payload
RuleLists ==
    { <<AnalysisResult([type |-> "business_feasibility", created_at |-> <<1>>, data |-> d], 1)>> :
        d \in BusinessPayloads }
    \cup
    { <<AnalysisResult([type |-> "demand_forecast", created_at |-> <<1>>, data |-> d], 1)>> :
        d \in ForecastPayloads }
    \cup
    { <<AnalysisResult([type |-> "optimization", created_at |-> <<1>>, data |-> d], 1)>> :
        d \in OptimizationPayloads \cup FeasiblePayloads }
    \cup
    { <<AnalysisResult([type |-> type, created_at |-> <<1>>], 1)>> :
        type \in {"demand_forecast", "optimization"} }

\* lists of more than ten records: optimization records of the times 2, 3, ...
\* in the order of their times, but for the record at one end of the list,
\* which is a forecast and the oldest or the newest of all
MaxRecords == 11

LongLists ==
    UNION { { [i \in 1..n |->
                  AnalysisResult(IF i = k
                                 THEN [type |-> "demand_forecast", created_at |-> <<at>>,
                                       data |-> FcGrowing]
                                 ELSE [type |-> "optimization", created_at |-> <<i + 1>>,
                                       data |-> OptInfeasible], i)] :
                k \in {0, 1, n}, at \in {1, n + 2} }
            : n \in (MaxCandidates + 1)..MaxRecords }

EngineInputs ==
    { [userId |-> "u1", analysisResults |-> rs, chatHistory |-> ch, currentSeason |-> s] :
        rs \in ResultLists, ch \in ChatHistories, s \in Seasons \cup {"none"} }
    \cup
    { [userId |-> "u1", analysisResults |-> rs, chatHistory |-> <<>>, currentSeason |-> "none"] :
        rs \in RuleLists \cup LongLists }
    \cup
    { [userId |-> "u1", analysisResults |-> <<>>, chatHistory |-> ch, currentSeason |-> s] :
        ch \in LongChats, s \in {"none", "fall"} }

----------------------------------------------------------------------------
(* The engine as a state machine: one call on one input bundle.             *)

EngineInit ==
    /\ einput \in EngineInputs
    /\ eclock \in Clocks
    /\ eoutput = <<>>
    /\ recommendation_sets = {}
    /\ recommendation_items = {}
    /\ now = 0
    /\ gens = 0
    /\ known = {}
    /\ calls = <<>>
    /\ returned = <<>>
    /\ handed = {}

EngineCall ==
    /\ eoutput = <<>>
    /\ eoutput' = <<generateRecommendations(einput, eclock)>>
    /\ UNCHANGED <<einput, eclock, svars>>

EngineNext == EngineCall

SpecEngine == EngineInit /\ [][EngineNext]_vars

----------------------------------------------------------------------------
(* The ranking on its own: the two sorts applied to a candidate list, to    *)
(* the same list once more and to the list they produced.  A candidate is   *)
(* what the comparators read of it, and its id.                             *)

MaxRanked == 4

RankedCandidate(i, confidence, createdAt) ==
    [id |-> <<"c", ToString(i)>>, confidence |-> confidence, createdAt |-> createdAt]

CandidateLists ==
    UNION { { [i \in 1..n |-> RankedCandidate(i, cs[i][1], cs[i][2])] :
                cs \in [1..n -> {60, 90} \X (0..(2 * DayLen - 1))] }
            : n \in 0..MaxRanked }

RankInit ==
    /\ einput \in CandidateLists
    /\ eclock = [t0 |-> 0, ticks |-> {}]
    /\ eoutput = <<>>
    /\ recommendation_sets = {}
    /\ recommendation_items = {}
    /\ now = 0
    /\ gens = 0
    /\ known = {}
    /\ calls = <<>>
    /\ returned = <<>>
    /\ handed = {}

\* the list is ranked
RankFirst ==
    /\ eoutput = <<>>
    /\ eoutput' = <<Rank(einput)>>
    /\ UNCHANGED <<einput, eclock, svars>>

\* the same list is ranked a second time
RankSame ==
    /\ Len(eoutput) = 1
    /\ eoutput' = Append(eoutput, Rank(einput))
    /\ UNCHANGED <<einput, eclock, svars>>

\* the ranked list is ranked again
RankAgain ==
    /\ Len(eoutput) = 2
    /\ eoutput' = Append(eoutput, Rank(eoutput[1]))
    /\ UNCHANGED <<einput, eclock, svars>>

RankNext == RankFirst \/ RankSame \/ RankAgain

SpecRank == RankInit /\ [][RankNext]_vars

\* C12: ranking the same candidate list twice gives the same order, and
\* ranking a ranked list leaves its order as it is.
C12_RankingIdempotent ==
    /\ Len(eoutput) >= 2 => eoutput[2] = eoutput[1]
    /\ Len(eoutput) >= 3 => eoutput[3] = eoutput[1]

\* a list of candidates of two days, with two of one day and one confidence
\* and two out of order, was ranked, ranked a second time and ranked again
C12_Witness ==
    /\ Len(eoutput) = 3
    /\ eoutput[1] # einput
    /\ \E i, j \in 1..Len(einput) :
          toDateString(einput[i].createdAt) # toDateString(einput[j].createdAt)
    /\ \E i, j \in 1..Len(einput) :
          /\ i # j
          /\ toDateString(einput[i].createdAt) = toDateString(einput[j].createdAt)
          /\ einput[i].confidence = einput[j].confidence

\* C25: in a list the two sorts have ranked, a candidate created on a later
\* calendar day never comes after a candidate created on an earlier one,
\* whatever the list was.
C25_LaterDayNeverAfterEarlier ==
    \A r \in 1..Len(eoutput) :
        \A i, j \in 1..Len(eoutput[r]) :
            i < j => toDateString(eoutput[r][i].createdAt) >= toDateString(eoutput[r][j].createdAt)

\* a list was ranked in which a candidate of the earlier day stood before
\* one of the later day, and in which the second sort moved a candidate of
\* higher confidence before one of its day
C25_Witness ==
    /\ Len(eoutput) >= 1
    /\ \E i, j \in 1..Len(einput) :
          i < j /\ toDateString(einput[i].createdAt) < toDateString(einput[j].createdAt)
    /\ eoutput[1] # ArraySort(einput, "TimeCmp")
    /\ \E i, j \in 1..Len(eoutput[1]) :
          /\ i < j
          /\ toDateString(eoutput[1][i].createdAt) = toDateString(eoutput[1][j].createdAt)
          /\ eoutput[1][i].createdAt < eoutput[1][j].createdAt
          /\ eoutput[1][i].confidence > eoutput[1][j].confidence

----------------------------------------------------------------------------
(* Properties of the engine, under SpecEngine.                              *)

\* C1: whatever the input and the clock, a call of the engine that returns
\* returns at most ten candidates.
C1_AtMostTenCandidates ==
    (eoutput # <<>> /\ eoutput[1].ok) =>
        Len(eoutput[1].recommendations) <= MaxCandidates

\* more than ten candidates were merged and ten were returned
C1_Witness ==
    /\ eoutput # <<>>
    /\ eoutput[1].ok
    /\ Len(Merged(einput).recs) > MaxCandidates
    /\ Len(eoutput[1].recommendations) = MaxCandidates

\* C9: the summary is the fallback sentence exactly when the returned list
\* is empty; with no analysis result, no message and no season the list is
\* empty and the summary is the fallback sentence.
C9_FallbackIffEmpty ==
    (eoutput # <<>> /\ eoutput[1].ok) =>
        /\ (eoutput[1].summary = Fallback) <=> (eoutput[1].recommendations = <<>>)
        /\ (/\ einput.analysisResults = <<>>
            /\ einput.chatHistory = <<>>
            /\ einput.currentSeason = "none")
              => (eoutput[1].recommendations = <<>> /\ eoutput[1].summary = Fallback)

\* the engine was called on nothing at all and answered with the fallback
C9_Witness ==
    /\ eoutput # <<>>
    /\ einput.analysisResults = <<>>
    /\ einput.chatHistory = <<>>
    /\ einput.currentSeason = "none"
    /\ eoutput[1].ok
    /\ eoutput[1].recommendations = <<>>
    /\ eoutput[1].summary = Fallback

\* the closing sentence of a summary written for a season
SeasonSentence(season) ==
    <<"Consider adjusting your strategy for the ", season, " season.">>

\* C10: with a season and neither analysis results nor messages the engine
\* returns exactly two candidates, one of type crop and one of type
\* business, both of confidence 0.70 and source seasonal, and the summary
\* ends with the sentence naming the season.
C10_SeasonOnly ==
    (/\ eoutput # <<>>
     /\ einput.analysisResults = <<>>
     /\ einput.chatHistory = <<>>
     /\ einput.currentSeason \in Seasons) =>
        LET recs == eoutput[1].recommendations
            summary == eoutput[1].summary
        IN /\ eoutput[1].ok
           /\ Len(recs) = 2
           /\ \E i, j \in 1..2 : recs[i].type = "crop" /\ recs[j].type = "business"
           /\ \A i \in 1..2 : recs[i].confidence = 70 /\ recs[i].source = "seasonal"
           /\ Len(summary) >= 3
           /\ SubSeq(summary, Len(summary) - 2, Len(summary))
                = SeasonSentence(einput.currentSeason)

\* the engine was called for the fall with nothing else and returned two
\* candidates
C10_Witness ==
    /\ eoutput # <<>>
    /\ einput.analysisResults = <<>>
    /\ einput.chatHistory = <<>>
    /\ einput.currentSeason = "fall"
    /\ eoutput[1].ok
    /\ Len(eoutput[1].recommendations) = 2

\* C11: in the list the engine returns, of two candidates created on the same
\* calendar day the one with the strictly higher confidence comes first,
\* wherever the two stood in the merged list.
C11_SameDayByConfidence ==
    (eoutput # <<>> /\ eoutput[1].ok) =>
        LET recs == eoutput[1].recommendations IN
        \A i, j \in 1..Len(recs) :
            (/\ toDateString(recs[i].createdAt) = toDateString(recs[j].createdAt)
             /\ recs[i].confidence > recs[j].confidence) => i < j

\* the clock passed midnight during the call, and of two candidates of the
\* later day the one merged second has the higher confidence and was
\* returned first
C11_Witness ==
    /\ eoutput # <<>>
    /\ eoutput[1].ok
    /\ LET merged == Created(Merged(einput).recs, eclock)
           recs   == eoutput[1].recommendations
       IN /\ \E i, j \in 1..Len(merged) :
                toDateString(merged[i].createdAt) # toDateString(merged[j].createdAt)
          /\ \E i, j \in 1..Len(merged) :
                /\ i < j
                /\ toDateString(merged[i].createdAt) = toDateString(merged[j].createdAt)
                /\ merged[i].confidence < merged[j].confidence
                /\ \E k, l \in 1..Len(recs) :
                      k < l /\ recs[k] = merged[j] /\ recs[l] = merged[i]

\* the lists that hold the elements of s in another order: every one of them
\* for a short list, those with two elements exchanged for a longer one
Reorderings(s) ==
    IF Len(s) <= MaxResults
    THEN { [i \in 1..Len(s) |-> s[f[i]]] :
             f \in { g \in [1..Len(s) -> 1..Len(s)] :
                        \A i, j \in 1..Len(s) : i # j => g[i] # g[j] } }
    ELSE { [i \in 1..Len(s) |-> IF i = a THEN s[b] ELSE IF i = b THEN s[a] ELSE s[i]] :
             a \in 1..Len(s), b \in 1..Len(s) }

\* C13: the engine returns the same candidates in the same order and the
\* same summary for the analysis results and the messages in any order,
\* records with equal or null created_at included.
C13_OrderIndependent ==
    eoutput # <<>> =>
        \A rs \in Reorderings(einput.analysisResults), ch \in Reorderings(einput.chatHistory) :
            \E other \in { generateRecommendations(
                               [einput EXCEPT !.analysisResults = rs, !.chatHistory = ch],
                               eclock) } :
                /\ other.ok = eoutput[1].ok
                /\ other.ok => /\ other.recommendations = eoutput[1].recommendations
                               /\ other.summary = eoutput[1].summary

\* C14: a payload that lacks a field a rule reads, a message without
\* content and a record without a data payload never make the engine raise
\* an error: the call returns.
C14_MissingFieldsNeverRaise ==
    eoutput # <<>> => eoutput[1].ok

\* the rule an analysis candidate came from and the id of its record
RuleOf(rec) == rec.id[1]
RecordIdOf(rec) == rec.id[2]

\* the candidates of a list that came from analysis records
FromAnalysis(recs) == SelectSeq(recs, LAMBDA r : r.source \in {"analysis", "pattern"})

\* the record of the input a candidate came from
RecordOf(rec) ==
    CHOOSE r \in { einput.analysisResults[i] : i \in 1..Len(einput.analysisResults) } :
        r.id = RecordIdOf(rec)

\* the fields of the payload a rule requires
RequiredFields(rule) ==
    CASE rule = "biz-profit-" -> {<<"profitMargin">>}
      [] rule = "biz-roi-" -> {<<"roi">>}
      [] rule = "biz-cost-" -> {<<"operationalCosts">>}
      [] rule = "biz-breakeven-" -> {<<"breakEvenUnits">>, <<"monthlySalesVolume">>}
      [] rule \in {"forecast-growth-", "forecast-decline-"} -> {<<"forecasted">>}
      [] rule = "forecast-seasonal-" -> {<<"chart", "historical">>}
      [] rule \in {"forecast-accuracy-", "forecast-inaccuracy-"} -> {<<"accuracy", "mape">>}
      [] rule \in {"opt-feasible-", "opt-resources-", "opt-constraints-", "opt-infeasible-"} ->
            {<<"feasible">>}

\* the payload has the field at the end of the path
HasPath(data, path) ==
    /\ Has(data, path[1])
    /\ Len(path) = 2 => Has(data[path[1]], path[2])

\* C15: every candidate of the business, forecast and optimization
\* extractors has a confidence between 0 and 1, and comes from a record
\* that has the fields its rule requires.
C15_ConfidenceRangeAndRequiredFields ==
    (eoutput # <<>> /\ eoutput[1].ok) =>
        LET recs == FromAnalysis(eoutput[1].recommendations) IN
        \A i \in 1..Len(recs) :
            /\ recs[i].confidence \in 0..100
            /\ Has(RecordOf(recs[i]), "data")
            /\ \A path \in RequiredFields(RuleOf(recs[i])) :
                  HasPath(RecordOf(recs[i]).data, path)

\* the engine was called on one record that has one of the two fields of the
\* break-even rule, or a chart without the historical series, or no
\* feasible field, and returned no candidate
C15_Witness ==
    /\ eoutput # <<>>
    /\ eoutput[1].ok
    /\ Len(einput.analysisResults) = 1
    /\ Has(einput.analysisResults[1], "data")
    /\ \/ /\ Has(einput.analysisResults[1].data, "breakEvenUnits")
          /\ ~Has(einput.analysisResults[1].data, "monthlySalesVolume")
       \/ /\ Has(einput.analysisResults[1].data, "chart")
          /\ ~Has(einput.analysisResults[1].data.chart, "historical")
       \/ /\ einput.analysisResults[1].type = "optimization"
          /\ Has(einput.analysisResults[1].data, "variables")
          /\ ~Has(einput.analysisResults[1].data, "feasible")
    /\ eoutput[1].recommendations = <<>>

\* every record of the input was read by its extractor and every candidate
\* that was emitted was returned
AllReadAndReturned ==
    /\ eoutput # <<>>
    /\ eoutput[1].ok
    /\ Len(einput.analysisResults) <= MaxPerType
    /\ Len(eoutput[1].recommendations) < MaxCandidates

\* the number of returned candidates of a rule for a record
Emitted(rule, result) ==
    Len(SelectSeq(eoutput[1].recommendations, LAMBDA r : r.id = <<rule, result.id>>))

\* the relative change from first to last, (last - first) / first, is above
\* +10% / below -10%
ChangeAboveTenPercent(first, last) ==
    (IF first > 0 THEN 100 * (last - first) ELSE 100 * (first - last)) > 10 * Abs(first)

ChangeBelowTenPercent(first, last) ==
    (IF first > 0 THEN 100 * (last - first) ELSE 100 * (first - last)) < -10 * Abs(first)

\* C16: a forecast record yields the growth candidate, and no decline
\* candidate, exactly when the change from its first to its last forecast
\* is above +10%, and the decline candidate, and no growth candidate,
\* exactly when it is below -10%; a change of exactly +10% or -10% and a
\* series of fewer than two points yield neither.
C16_GrowthDeclineStrict ==
    AllReadAndReturned =>
        \A i \in 1..Len(einput.analysisResults) :
            LET result == einput.analysisResults[i]
                series == result.data.forecasted
                first  == series[1].forecast
                last   == series[Len(series)].forecast
                growth  == Emitted("forecast-growth-", result)
                decline == Emitted("forecast-decline-", result)
            IN result.type = "demand_forecast" =>
                 IF Has(result.data, "forecasted") /\ Len(series) >= 2
                 THEN (/\ Has(series[1], "forecast")
                       /\ Has(series[Len(series)], "forecast")
                       /\ first # 0) =>
                          /\ growth = (IF ChangeAboveTenPercent(first, last) THEN 1 ELSE 0)
                          /\ decline = (IF ChangeBelowTenPercent(first, last) THEN 1 ELSE 0)
                          /\ growth + decline <= 1
                 ELSE growth = 0 /\ decline = 0

\* the engine was called on one forecast from 100 to 110 and returned no
\* candidate
C16_Witness ==
    /\ AllReadAndReturned
    /\ Len(einput.analysisResults) = 1
    /\ einput.analysisResults[1].type = "demand_forecast"
    /\ Has(einput.analysisResults[1].data, "forecasted")
    /\ einput.analysisResults[1].data.forecasted = <<[forecast |-> 100], [forecast |-> 110]>>
    /\ ~Has(einput.analysisResults[1].data, "accuracy")
    /\ eoutput[1].recommendations = <<>>

\* the returned candidates that came from a record
CandidatesOf(result) ==
    SelectSeq(FromAnalysis(eoutput[1].recommendations), LAMBDA r : RecordIdOf(r) = result.id)

\* C17: an optimization record with feasible = false yields exactly one
\* candidate, titled "Resource Constraints Too Tight" with confidence 0.90,
\* whatever variables and constraints it has; a record without a feasible
\* field yields no candidate.
C17_InfeasibleYieldsOne ==
    AllReadAndReturned =>
        \A i \in 1..Len(einput.analysisResults) :
            LET result == einput.analysisResults[i]
                recs   == CandidatesOf(result)
            IN result.type = "optimization" =>
                 /\ (Has(result.data, "feasible") /\ result.data.feasible = FALSE) =>
                       /\ Len(recs) = 1
                       /\ RuleOf(recs[1]) = "opt-infeasible-"
                       /\ recs[1].title = <<"Resource Constraints Too Tight">>
                       /\ recs[1].confidence = 90
                 /\ ~Has(result.data, "feasible") => recs = <<>>

\* the engine was called on one infeasible optimization record that has
\* variables and constraints and returned one candidate
C17_Witness ==
    /\ AllReadAndReturned
    /\ Len(einput.analysisResults) = 1
    /\ einput.analysisResults[1].type = "optimization"
    /\ Has(einput.analysisResults[1].data, "feasible")
    /\ einput.analysisResults[1].data.feasible = FALSE
    /\ Has(einput.analysisResults[1].data, "variables")
    /\ Has(einput.analysisResults[1].data, "constraints")
    /\ Len(eoutput[1].recommendations) = 1

\* the type of the records a rule belongs to
TypeOfRule(rule) ==
    CASE rule \in {"biz-profit-", "biz-roi-", "biz-cost-", "biz-breakeven-"} ->
            "business_feasibility"
      [] rule \in {"forecast-growth-", "forecast-decline-", "forecast-seasonal-",
                   "forecast-accuracy-", "forecast-inaccuracy-"} -> "demand_forecast"
      [] rule \in {"opt-feasible-", "opt-resources-", "opt-constraints-", "opt-infeasible-"} ->
            "optimization"

\* the positions of the records of the input, of the given types, that are
\* more recent than result
Newer(result, types) ==
    { i \in 1..Len(einput.analysisResults) :
        /\ einput.analysisResults[i].type \in types
        /\ TimeOrZero(einput.analysisResults[i].created_at) > TimeOrZero(result.created_at) }

\* C20: a returned analysis candidate comes from a record of the type of its
\* rule that is among the 10 most recent records of the input and among the
\* 3 most recent of its type, and the candidates of one extractor come from
\* at most 3 records.
C20_TopTenThenThreePerType ==
    (eoutput # <<>> /\ eoutput[1].ok) =>
        LET recs == FromAnalysis(eoutput[1].recommendations) IN
        /\ \A i \in 1..Len(recs) :
              LET result == RecordOf(recs[i]) IN
              /\ result.type = TypeOfRule(RuleOf(recs[i]))
              /\ Cardinality(Newer(result, {"business_feasibility", "demand_forecast",
                                            "optimization"})) < MaxCandidates
              /\ Cardinality(Newer(result, {result.type})) < MaxPerType
        /\ \A type \in {"business_feasibility", "demand_forecast", "optimization"} :
              Cardinality({ RecordIdOf(recs[i]) :
                              i \in { j \in 1..Len(recs) : TypeOfRule(RuleOf(recs[j])) = type } })
                <= MaxPerType

\* the engine was called on more than ten records, the oldest of them the
\* only forecast, and returned the candidates of three optimization records
\* and none of the forecast
C20_Witness ==
    /\ eoutput # <<>>
    /\ eoutput[1].ok
    /\ Len(einput.analysisResults) > MaxCandidates
    /\ \E i \in 1..Len(einput.analysisResults) :
          /\ einput.analysisResults[i].type = "demand_forecast"
          /\ Cardinality(Newer(einput.analysisResults[i], {"optimization"})) >= MaxCandidates
    /\ Len(eoutput[1].recommendations) = MaxPerType
    /\ \A i \in 1..Len(eoutput[1].recommendations) :
          RuleOf(eoutput[1].recommendations[i]) = "opt-infeasible-"

\* C21: a forecast record whose accuracy has a MAPE yields the
\* high-reliability candidate (confidence 0.80) and no other accuracy
\* candidate when the MAPE is below 10, 0 included, the uncertainty-alert
\* candidate (confidence 0.70) and no other when it is above 20, and neither
\* from 10 to 20.
C21_AccuracyByMapeAlone ==
    AllReadAndReturned =>
        \A i \in 1..Len(einput.analysisResults) :
            LET result == einput.analysisResults[i]
                mape   == result.data.accuracy.mape
                high   == SelectSeq(CandidatesOf(result),
                                    LAMBDA r : RuleOf(r) = "forecast-accuracy-")
                low    == SelectSeq(CandidatesOf(result),
                                    LAMBDA r : RuleOf(r) = "forecast-inaccuracy-")
            IN (/\ result.type = "demand_forecast"
                /\ Has(result.data, "accuracy")
                /\ Has(result.data.accuracy, "mape")) =>
                  /\ Len(high) = (IF mape < 10 THEN 1 ELSE 0)
                  /\ Len(low) = (IF mape > 20 THEN 1 ELSE 0)
                  /\ \A k \in 1..Len(high) :
                        /\ high[k].title = <<"High Forecast Reliability">>
                        /\ high[k].confidence = 80
                  /\ \A k \in 1..Len(low) :
                        /\ low[k].title = <<"Forecast Uncertainty Alert">>
                        /\ low[k].confidence = 70

\* the pieces that end the opening clause of a summary
OpeningEnds == {"we recommend: ", "Based on your historical data, we recommend: "}

\* the opening clause of a summary: its pieces up to the first that ends it
OpeningOf(summary) ==
    SubSeq(summary, 1, CHOOSE k \in 1..Len(summary) :
                          /\ summary[k] \in OpeningEnds
                          /\ \A j \in 1..(k - 1) : summary[j] \notin OpeningEnds)

\* the input has a record of the type, evaluated or not
InputHasType(type) ==
    \E i \in 1..Len(einput.analysisResults) : einput.analysisResults[i].type = type

\* C22: the opening clause of a summary written for candidates names
\* business feasibility, demand forecasting and optimization, in this order,
\* exactly for the types of which the input, before its truncation to ten
\* records, has a record, whether or not a record of the type was evaluated
\* or gave a candidate; it is the "historical data" opener exactly when the
\* input has no record of the three types.
C22_OpeningCountsFullInput ==
    (eoutput # <<>> /\ eoutput[1].ok /\ eoutput[1].recommendations # <<>>) =>
        LET summary == eoutput[1].summary
            opening == OpeningOf(summary)
            business     == InputHasType("business_feasibility")
            forecast     == InputHasType("demand_forecast")
            optimization == InputHasType("optimization")
        IN /\ \E k \in 1..Len(summary) : summary[k] \in OpeningEnds
           /\ IF business \/ forecast \/ optimization
              THEN opening =
                     <<"Based on your ">>
                       \o (IF business THEN <<"business feasibility analysis, ">> ELSE <<>>)
                       \o (IF forecast THEN <<"demand forecasting, ">> ELSE <<>>)
                       \o (IF optimization THEN <<"optimization analysis, ">> ELSE <<>>)
                       \o <<"we recommend: ">>
              ELSE opening = <<"Based on your historical data, we recommend: ">>

\* the engine was called on more than ten records, the only forecast the
\* oldest of them and so not among the ten that were evaluated, and the
\* summary names demand forecasting
C22_Witness ==
    /\ eoutput # <<>>
    /\ eoutput[1].ok
    /\ Len(einput.analysisResults) > MaxCandidates
    /\ \E i \in 1..Len(einput.analysisResults) :
          /\ einput.analysisResults[i].type = "demand_forecast"
          /\ Cardinality(Newer(einput.analysisResults[i], {"optimization"})) >= MaxCandidates
    /\ \A i \in 1..Len(eoutput[1].recommendations) :
          RuleOf(eoutput[1].recommendations[i]) = "opt-infeasible-"
    /\ \E k \in 1..Len(eoutput[1].summary) : eoutput[1].summary[k] = "demand forecasting, "

\* the summary between its opening clause and its closing sentence
TitlesOf(summary) ==
    LET closed == /\ einput.currentSeason # "none"
                  /\ Len(summary) >= 3
                  /\ SubSeq(summary, Len(summary) - 2, Len(summary))
                       = SeasonSentence(einput.currentSeason)
    IN SubSeq(summary, Len(OpeningOf(summary)) + 1,
              IF closed THEN Len(summary) - 3 ELSE Len(summary))

\* the positions of the candidates of a type among the first five of a list
FirstFiveOf(recs, type) == { i \in 1..Len(recs) : i <= 5 /\ recs[i].type = type }

\* the sentence a type contributes: the title of its first candidate among
\* the first five, or nothing
TitleSentence(recs, type) ==
    IF FirstFiveOf(recs, type) = {} THEN <<>>
    ELSE recs[CHOOSE i \in FirstFiveOf(recs, type) :
                 \A j \in FirstFiveOf(recs, type) : i <= j].title \o <<". ">>

\* C23: between its opening and its closing the summary holds, in the order
\* business, market, resource, crop, one sentence for each type that has a
\* candidate among the first 5 of the returned list, made of the title of
\* the first such candidate, and nothing else: a type whose candidates are
\* at the positions 6 to 10 only contributes nothing.
C23_OneTitlePerTypeFromTopFive ==
    (eoutput # <<>> /\ eoutput[1].ok /\ eoutput[1].recommendations # <<>>) =>
        LET recs == eoutput[1].recommendations IN
        TitlesOf(eoutput[1].summary) =
            TitleSentence(recs, "business") \o TitleSentence(recs, "market")
              \o TitleSentence(recs, "resource") \o TitleSentence(recs, "crop")

\* the crop candidate of the season was returned after the fifth place, two
\* of the first five candidates are of one type with different titles, and
\* the summary has no sentence for the crop
C23_Witness ==
    /\ eoutput # <<>>
    /\ eoutput[1].ok
    /\ LET recs == eoutput[1].recommendations IN
       /\ \E i \in 1..Len(recs) : i > 5 /\ recs[i].type = "crop"
       /\ FirstFiveOf(recs, "crop") = {}
       /\ \E i, j \in FirstFiveOf(recs, "business") : recs[i].title # recs[j].title
       /\ \A k \in 1..Len(eoutput[1].summary) :
             eoutput[1].summary[k] # " Crop Recommendations"

\* the summary ends with the closing sentence naming the season
EndsWithSeason(summary, season) ==
    /\ Len(summary) >= 3
    /\ SubSeq(summary, Len(summary) - 2, Len(summary)) = SeasonSentence(season)

\* the summary has a sentence about a season
HasSeasonSentence(summary) ==
    \E k \in 1..Len(summary) : summary[k] = "Consider adjusting your strategy for the "

\* C24: whenever a season is supplied, whatever the analysis results and the
\* messages, the call gives a summary that ends with the closing sentence
\* naming the season and is not the fallback string; whenever no season is
\* supplied the summary has no sentence about a season.
C24_SeasonAlwaysClosesSummary ==
    eoutput # <<>> =>
        IF einput.currentSeason \in Seasons
        THEN /\ eoutput[1].ok
             /\ eoutput[1].summary # Fallback
             /\ EndsWithSeason(eoutput[1].summary, einput.currentSeason)
        ELSE eoutput[1].ok => ~HasSeasonSentence(eoutput[1].summary)

\* the same of the calls that return: a call that returns for a season gave
\* a summary that ends with the sentence naming it and is not the fallback
SeasonClosesReturnedSummary ==
    (eoutput # <<>> /\ eoutput[1].ok) =>
        IF einput.currentSeason \in Seasons
        THEN /\ eoutput[1].summary # Fallback
             /\ EndsWithSeason(eoutput[1].summary, einput.currentSeason)
        ELSE ~HasSeasonSentence(eoutput[1].summary)

\* the positions of the assistant's messages in the chat history
Assistant == { i \in 1..Len(einput.chatHistory) : einput.chatHistory[i].role = "assistant" }

\* the assistant's messages created after the one at position i, and those
\* created no earlier
After(i) ==
    { j \in Assistant : TimeOrZero(einput.chatHistory[j].created_at)
                          > TimeOrZero(einput.chatHistory[i].created_at) }

NotBefore(i) ==
    { j \in Assistant \ {i} : TimeOrZero(einput.chatHistory[j].created_at)
                                >= TimeOrZero(einput.chatHistory[i].created_at) }

\* the categories of the keywords the message at position i holds
CategoriesOf(i) ==
    { keywordMap[k][2] :
        k \in { n \in 1..Len(keywordMap) :
                  \E s \in 1..Len(einput.chatHistory[i].content) :
                      keywordMap[n][1] \in einput.chatHistory[i].content[s].kw } }

\* the returned candidates of the chat extractor
FromChat(recs) == SelectSeq(recs, LAMBDA r : r.source = "chat")

\* C26: the chat candidates come from the assistant's ten most recent
\* messages alone: every category for which one of them holds a keyword has
\* exactly one candidate, of confidence 0.60 and source chat, no other
\* category has one, and there are at most 7; the messages of other roles
\* and the assistant's older messages give nothing.
C26_ChatFromTenRecentAssistant ==
    (eoutput # <<>> /\ eoutput[1].ok /\ Len(eoutput[1].recommendations) < MaxCandidates) =>
        LET chat == FromChat(eoutput[1].recommendations)
            read == { i \in Assistant : Cardinality(After(i)) < 10 }
            sure == { i \in Assistant : Cardinality(NotBefore(i)) < 10 }
        IN /\ Len(chat) <= 7
           /\ \A k \in 1..Len(chat) :
                 /\ chat[k].confidence = 60
                 /\ chat[k].data.category \in UNION { CategoriesOf(i) : i \in read }
                 /\ \A l \in 1..Len(chat) :
                       chat[l].data.category = chat[k].data.category => l = k
           /\ \A category \in UNION { CategoriesOf(i) : i \in sure } :
                 \E k \in 1..Len(chat) : chat[k].data.category = category

\* the history held eleven answers, the oldest alone about risk, and a later
\* question about profit, and the one chat candidate is about the market
C26_Witness ==
    /\ eoutput # <<>>
    /\ eoutput[1].ok
    /\ Cardinality(Assistant) > MaxChatMessages
    /\ \E i \in Assistant : "risk" \in CategoriesOf(i) /\ Cardinality(After(i)) >= 10
    /\ \E i \in 1..Len(einput.chatHistory) :
          /\ i \notin Assistant
          /\ "profit" \in CategoriesOf(i)
          /\ \A j \in Assistant : TimeOrZero(einput.chatHistory[j].created_at)
                                    < TimeOrZero(einput.chatHistory[i].created_at)
    /\ Len(FromChat(eoutput[1].recommendations)) = 1
    /\ FromChat(eoutput[1].recommendations)[1].data.category = "market"

\* the positions of the variables of a payload that have a positive value
PositiveVariables(data) ==
    IF Has(data, "variables")
    THEN { p \in 1..Len(data.variables) :
             Has(data.variables[p], "value") /\ data.variables[p].value > 0 }
    ELSE {}

\* a constraint of the payload has a slack of zero or within 1e-3 of zero
\* (slacks are in units of 1e-4)
HasBindingConstraint(data) ==
    /\ Has(data, "constraints")
    /\ \E p \in 1..Len(data.constraints) :
          /\ Has(data.constraints[p], "slack")
          /\ data.constraints[p].slack > -10
          /\ data.constraints[p].slack < 10

\* C27: a feasible optimization record yields between 1 and 3 candidates:
\* the optimal-allocation candidate always; the key-resource candidate
\* exactly when a variable has a positive value, and it lists at most 3
\* variables of the record, all positive, in descending order of value, no
\* variable left out being larger than one listed; the bottleneck candidate
\* exactly when a constraint has a slack of zero or within 1e-3 of zero.
C27_FeasibleYieldsOneToThree ==
    AllReadAndReturned =>
        \A i \in 1..Len(einput.analysisResults) :
            LET result == einput.analysisResults[i]
                data   == result.data
                recs   == CandidatesOf(result)
                optimal     == SelectSeq(recs, LAMBDA r : RuleOf(r) = "opt-feasible-")
                resources   == SelectSeq(recs, LAMBDA r : RuleOf(r) = "opt-resources-")
                bottlenecks == SelectSeq(recs, LAMBDA r : RuleOf(r) = "opt-constraints-")
                positive    == PositiveVariables(data)
            IN (/\ result.type = "optimization"
                /\ Has(data, "feasible")
                /\ data.feasible = TRUE) =>
                  /\ Len(recs) \in 1..3
                  /\ Len(optimal) = 1
                  /\ Len(recs) = Len(optimal) + Len(resources) + Len(bottlenecks)
                  /\ Len(resources) = (IF positive # {} THEN 1 ELSE 0)
                  /\ Len(bottlenecks) = (IF HasBindingConstraint(data) THEN 1 ELSE 0)
                  /\ \A k \in 1..Len(resources) :
                        LET top  == resources[k].data.topResources
                            last == top[Len(top)].value
                        IN /\ Len(top) = Min(3, Cardinality(positive))
                           /\ \A a \in 1..Len(top) :
                                 /\ top[a].value > 0
                                 /\ \E p \in positive : data.variables[p] = top[a]
                                 /\ \A b \in 1..Len(top) :
                                       a < b => top[a].value >= top[b].value
                           /\ \A p \in positive :
                                 data.variables[p].value > last =>
                                    \E a \in 1..Len(top) : top[a] = data.variables[p]

\* a feasible record with four positive variables and a slack of 9e-4 gave
\* the three candidates, the second listing three variables
C27_Witness ==
    /\ AllReadAndReturned
    /\ Len(einput.analysisResults) = 1
    /\ einput.analysisResults[1].type = "optimization"
    /\ Has(einput.analysisResults[1], "data")
    /\ Feasibility(einput.analysisResults[1].data) = "feasible"
    /\ Cardinality(PositiveVariables(einput.analysisResults[1].data)) > 3
    /\ HasBindingConstraint(einput.analysisResults[1].data)
    /\ \A p \in 1..Len(einput.analysisResults[1].data.constraints) :
          einput.analysisResults[1].data.constraints[p].slack # 0
    /\ Len(eoutput[1].recommendations) = 3
    /\ \E k \in 1..3 :
          /\ RuleOf(eoutput[1].recommendations[k]) = "opt-resources-"
          /\ Len(eoutput[1].recommendations[k].data.topResources) = 3

----------------------------------------------------------------------------
(* The store (src/db.ts).  The collections the recommendation service only  *)
(* reads hold fixed rows; recommendation_sets and recommendation_items are  *)
(* the variables above.                                                     *)

Users == {"u1", "u2"}

Tip ==
    [id |-> <<"m5">>, conversation_id |-> "c1", role |-> "assistant", created_at |-> <<2>>,
     content |-> <<[text |-> "Watch the market", kw |-> {"market"}]>>]

Ask ==
    [id |-> <<"m6">>, conversation_id |-> "c1", role |-> "user", created_at |-> <<1>>,
     content |-> <<[text |-> "How do I grow my profit", kw |-> {"grow", "profit"}]>>]

DefaultLimit == 50

\* the second conversation: as many questions as getMessages returns by
\* default, and after them one answer
Backlog ==
    { [id |-> <<"q", i>>, conversation_id |-> "c2", role |-> "user", created_at |-> <<i>>,
       content |-> <<[text |-> "Question", kw |-> {}]>>] : i \in 1..DefaultLimit }

Latest ==
    [id |-> <<"m7">>, conversation_id |-> "c2", role |-> "assistant",
     created_at |-> <<DefaultLimit + 1>>,
     content |-> <<[text |-> "Raise your profit", kw |-> {"profit"}]>>]

analysis_results ==
    { [id |-> <<"a1">>, user_id |-> "u1", type |-> "optimization", data |-> OptInfeasible,
       created_at |-> <<1>>, updated_at |-> <<1>>],
      [id |-> <<"a2">>, user_id |-> "u2", type |-> "business_feasibility",
       data |-> [breakEvenUnits |-> 40, monthlySalesVolume |-> 100],
       created_at |-> <<1>>, updated_at |-> <<1>>] }

chat_conversations ==
    { [id |-> "c1", user_id |-> "u1", title |-> "Advice",
       created_at |-> <<1>>, updated_at |-> <<2>>],
      [id |-> "c2", user_id |-> "u2", title |-> "Questions",
       created_at |-> <<1>>, updated_at |-> <<2>>] }

chat_messages == {Tip, Ask, Latest} \cup Backlog

\* cursor.sort({key: 1}) / sort({key: -1}).toArray(): the rows in an order
\* sorted by the key; rows with equal keys come in any order
RECURSIVE SortedRows(_, _, _)
SortedRows(rows, key, descending) ==
    IF rows = {} THEN { <<>> }
    ELSE LET times == { TimeOrZero(r[key]) : r \in rows }
             first == CHOOSE t \in times :
                         \A o \in times : IF descending THEN t >= o ELSE t <= o
         IN UNION { { <<r>> \o s : s \in SortedRows(rows \ {r}, key, descending) } :
                      r \in { x \in rows : TimeOrZero(x[key]) = first } }

\* the projection each getter applies to a row
Project(row, fields) == [f \in fields |-> row[f]]

getAnalysisResults(userId) ==
    { [i \in DOMAIN s |->
          Project(s[i], {"id", "user_id", "type", "data", "created_at", "updated_at"})] :
        s \in SortedRows({r \in analysis_results : r.user_id = userId}, "updated_at", TRUE) }

getConversations(userId) ==
    { [i \in DOMAIN s |->
          Project(s[i], {"id", "user_id", "title", "created_at", "updated_at"})] :
        s \in SortedRows({c \in chat_conversations : c.user_id = userId}, "updated_at", TRUE) }

\* getMessages(conversationId, limit = 50, skip = 0)
getMessages(conversationId) ==
    { [i \in DOMAIN Slice(s, DefaultLimit) |->
          Project(s[i], {"id", "conversation_id", "role", "content", "created_at"})] :
        s \in SortedRows({m \in chat_messages : m.conversation_id = conversationId},
                         "created_at", FALSE) }

getRecommendationSets(sets, userId) ==
    SortedRows({s \in sets : s.user_id = userId}, "created_at", TRUE)

\* findOne({id}): <<>> (undefined) or <<the row>>
getRecommendationSet(sets, id) ==
    IF \E s \in sets : s.id = id
    THEN { <<s>> : s \in {x \in sets : x.id = id} }
    ELSE { <<>> }

\* a variant that finds the items of every set
getRecommendationItems_anySet(items, setId) ==
    SortedRows(items, "created_at", TRUE)

getRecommendationItems(items, setId) ==
    SortedRows({i \in items : i.set_id = setId}, "created_at", TRUE)

\* createRecommendationSet / createRecommendationItem: {id: uuidv4(), ...data,
\* created_at: new Date()}: the id and the fields of data, the time of the store
Created_row(data, at) ==
    [f \in DOMAIN data \cup {"created_at"} |-> IF f = "created_at" THEN <<at>> ELSE data[f]]

\* deleteRecommendationSet, first statement: deleteOne({id})
DeleteOneSet(sets, id) == {s \in sets : s.id # id}

\* a variant that leaves the items alone
DeleteManyItems_none(items, id) == items

\* deleteRecommendationSet, second statement: deleteMany({set_id: id})
DeleteManyItems(items, id) == {i \in items : i.set_id # id}

\* the error a failed driver operation raises, and the one getMessages raises
\* in its place
DriverError(op) == [name |-> "MongoError", message |-> op]

StoreError(op) ==
    IF op = "getMessages"
    THEN [name |-> "Error", message |-> "Failed to fetch messages"]
    ELSE DriverError(op)

----------------------------------------------------------------------------
(* Decimal text of a confidence (hundredths): Number.prototype.toString and *)
(* Number(text).  The text is the sequence of its characters.               *)

RECURSIVE Digits(_)
Digits(n) == IF n < 10 THEN <<ToString(n)>> ELSE Digits(n \div 10) \o <<ToString(n % 10)>>

DigitValue(c) == CHOOSE d \in 0..9 : ToString(d) = c

RECURSIVE DigitsValue(_)
DigitsValue(s) ==
    IF s = <<>> THEN 0 ELSE 10 * DigitsValue(SubSeq(s, 1, Len(s) - 1)) + DigitValue(s[Len(s)])

\* a variant that writes one decimal place
ConfidenceToString_oneDecimal(h) ==
    Digits(h \div 100) \o <<".", ToString((h % 100) \div 10)>>

\* (h / 100).toString(): the shortest decimal text
ConfidenceToString(h) ==
    LET whole == h \div 100
        frac  == h % 100
    IN Digits(whole)
         \o (IF frac = 0 THEN <<>>
             ELSE IF frac % 10 = 0 THEN <<".", ToString(frac \div 10)>>
             ELSE <<".", ToString(frac \div 10), ToString(frac % 10)>>)

\* Number(text), in hundredths
StringToConfidence(text) ==
    LET dot   == IF \E i \in DOMAIN text : text[i] = "."
                 THEN CHOOSE i \in DOMAIN text : text[i] = "."
                 ELSE Len(text) + 1
        whole == SubSeq(text, 1, dot - 1)
        frac  == SubSeq(text, dot + 1, Len(text))
        two   == IF Len(frac) = 0 THEN <<"0", "0">>
                 ELSE IF Len(frac) = 1 THEN frac \o <<"0">>
                 ELSE SubSeq(frac, 1, 2)
    IN 100 * DigitsValue(whole) + DigitsValue(two)

\* Date.prototype.toISOString of a stored time
toISOString(created_at) == ToString(created_at[1])

----------------------------------------------------------------------------
(* The recommendation service (src/services/recommendation-service.ts).     *)
(* A call runs from one await to the next in one step; the store operation  *)
(* of each await either succeeds or raises.                                 *)

Procs == {"p1", "p2"}
MaxSets == 2
MaxClock == 1

\* uuid(): a name no other call draws; the n-th generate call draws Uuid(n)
\* for its set and ItemUuid(n, k) for its k-th item
Uuid(n) == <<"set", n>>
ItemUuid(n, k) == <<"item", n, k>>

\* the ids a client asks for: the id of a set that is or was stored (a
\* client learns an id from a result it was given), or one no set ever had
NoSuchId == <<"set", 0>>
AskedIds == known \cup {NoSuchId}

\* the seasons the clients ask for: currentSeason is optional and left out
AskedSeasons == {"none"}

mapRecommendationSetFromDb(set) ==
    [id |-> set.id, userId |-> set.user_id, summary |-> set.summary,
     createdAt |-> toISOString(set.created_at)]

mapRecommendationItemFromDb(item) ==
    [id |-> item.id, setId |-> item.set_id, type |-> item.type, title |-> item.title,
     description |-> item.description,
     confidence |-> StringToConfidence(item.confidence),
     data |-> item.data, source |-> item.source,
     createdAt |-> toISOString(item.created_at)]

\* a variant that gives the item its own id as the id of its set
itemToInsert_ownSetId(rec, id, set_id) ==
    [id |-> id, set_id |-> id, type |-> rec.type, title |-> rec.title,
     description |-> rec.description,
     confidence |-> ConfidenceToString(rec.confidence),
     data |-> rec.data, source |-> rec.source]

\* the row the service hands to createRecommendationItem for candidate rec
itemToInsert(rec, id, set_id) ==
    [id |-> id, set_id |-> set_id, type |-> rec.type, title |-> rec.title,
     description |-> rec.description,
     confidence |-> ConfidenceToString(rec.confidence),
     data |-> rec.data, source |-> rec.source]

\* { ...mapRecommendationSetFromDb(set), items }
WithItems(set, items) ==
    LET mapped == mapRecommendationSetFromDb(set) IN
    [id |-> mapped.id, userId |-> mapped.userId, summary |-> mapped.summary,
     createdAt |-> mapped.createdAt, items |-> items]

\* a variant that raises an error of its own in place of the one caught
Rethrow_wrapped(error) == [name |-> "Error", message |-> "Failed"]

\* catch (error) { console.error(...); throw error; }
Rethrow(error) == error

Idle == [op |-> "idle", pc |-> "idle"]

Logged(c, op) == Append(c.log, [op |-> op, error |-> <<>>])

\* the store operation op of call c raised: the catch block ends the call
Raised(c, op) ==
    [c EXCEPT !.pc = "done",
              !.log = Append(c.log, [op |-> op, error |-> <<StoreError(op)>>]),
              !.result = [ok |-> FALSE, error |-> Rethrow(StoreError(op))]]

Returned(c, value) == [c EXCEPT !.pc = "done", !.result = [ok |-> TRUE, value |-> value]]

\* client p's call goes on as c, or ends: its outcome is handed to the caller
\* and the client is free again.  The payload of a generateRecommendations
\* call that returns is kept on record while its set is stored.
Step(p, c) ==
    IF c.pc = "done"
    THEN /\ calls' = [calls EXCEPT ![p] = Idle]
         /\ returned' = <<[proc |-> p, call |-> c]>>
         /\ handed' = IF /\ c.op = "generate"
                         /\ c.result.ok
                         /\ \E s \in recommendation_sets : s.id = c.result.value.id
                      THEN handed \cup {c.result.value}
                      ELSE handed
    ELSE /\ calls' = [calls EXCEPT ![p] = c]
         /\ returned' = <<>>
         /\ handed' = IF c.op = "deleteRecommendationSet" /\ c.pc = "deleteMany"
                      THEN {h \in handed : h.id # c.setId}
                      ELSE handed

\* the times a store write may read from the clock, not before t
WriteTimes(t) == { at \in {t, t + 1} : at <= MaxClock }

SInit ==
    /\ recommendation_sets = {}
    /\ recommendation_items = {}
    /\ now = 0
    /\ gens = 0
    /\ known = {}
    /\ calls = [p \in Procs |-> Idle]
    /\ returned = <<>>
    /\ handed = {}

----------------------------------------------------------------------------
(* generateRecommendations(params)                                          *)

\* a client that has no call in progress
Free(p) == calls[p].pc = "idle"

\* the call runs to its first await: storage.getAnalysisResults(userId)
Generate_getAnalysisResults(p) ==
    /\ Free(p)
    /\ gens < MaxSets
    /\ \E userId \in Users, currentSeason \in AskedSeasons :
          LET c == [op |-> "generate", pc |-> "getAnalysisResults",
                    userId |-> userId, currentSeason |-> currentSeason, gen |-> gens + 1,
                    analysisResults |-> <<>>, conversations |-> <<>>, chatMessages |-> <<>>,
                    next |-> 1, recommendations |-> <<>>, recommendationSet |-> <<>>,
                    items |-> <<>>, log |-> <<>>, result |-> <<>>]
          IN \/ \E rs \in getAnalysisResults(userId) :
                   Step(p, [c EXCEPT !.analysisResults = rs, !.pc = "getConversations",
                                     !.log = Logged(c, "getAnalysisResults")])
             \/ Step(p, Raised(c, "getAnalysisResults"))
    /\ gens' = gens + 1
    /\ UNCHANGED <<recommendation_sets, recommendation_items, now, known>>

Generate_getConversations(p) ==
    LET c == calls[p] IN
    /\ c.op = "generate" /\ c.pc = "getConversations"
    /\ \/ \E cs \in getConversations(c.userId) :
             Step(p, [c EXCEPT !.conversations = cs, !.next = 1,
                           !.pc = IF cs = <<>> THEN "createRecommendationSet"
                                  ELSE "getMessages",
                           !.log = Logged(c, "getConversations")])
       \/ Step(p, Raised(c, "getConversations"))
    /\ UNCHANGED <<recommendation_sets, recommendation_items, now, gens, known>>

\* a variant that stores an empty set for the user when the fetch fails
Generate_getMessages_savesOnFailure(p) ==
    LET c == calls[p] IN
    /\ c.op = "generate" /\ c.pc = "getMessages"
    /\ \/ /\ \E ms \in getMessages(c.conversations[c.next].id) :
                Step(p, [c EXCEPT !.chatMessages = c.chatMessages \o ms,
                              !.next = IF c.next = Len(c.conversations) THEN 1 ELSE c.next + 1,
                              !.pc = IF c.next = Len(c.conversations)
                                     THEN "createRecommendationSet" ELSE "getMessages",
                              !.log = Logged(c, "getMessages")])
          /\ UNCHANGED recommendation_sets
       \/ /\ Step(p, Raised(c, "getMessages"))
          /\ recommendation_sets' = recommendation_sets \cup
                { Created_row([id |-> Uuid(c.gen), user_id |-> c.userId,
                               summary |-> Fallback], now) }
    /\ UNCHANGED <<recommendation_items, now, gens, known>>

Generate_getMessages(p) ==
    LET c == calls[p] IN
    /\ c.op = "generate" /\ c.pc = "getMessages"
    /\ \/ \E ms \in getMessages(c.conversations[c.next].id) :
             Step(p, [c EXCEPT !.chatMessages = c.chatMessages \o ms,
                           !.next = IF c.next = Len(c.conversations) THEN 1 ELSE c.next + 1,
                           !.pc = IF c.next = Len(c.conversations)
                                  THEN "createRecommendationSet" ELSE "getMessages",
                           !.log = Logged(c, "getMessages")])
       \/ Step(p, Raised(c, "getMessages"))
    /\ UNCHANGED <<recommendation_sets, recommendation_items, now, gens, known>>

\* the engine runs on the fetched bundle (within one reading of the clock),
\* then the set is inserted
Generate_createRecommendationSet(p) ==
    LET c == calls[p]
        recommendationInput ==
            [userId |-> c.userId, analysisResults |-> c.analysisResults,
             chatHistory |-> c.chatMessages, currentSeason |-> c.currentSeason]
    IN
    /\ c.op = "generate" /\ c.pc = "createRecommendationSet"
    /\ \E recommendations \in
            { generateRecommendations(recommendationInput, [t0 |-> now, ticks |-> {}]) } :
          IF ~recommendations.ok
          THEN /\ Step(p, [c EXCEPT !.pc = "done",
                                    !.result = [ok |-> FALSE,
                                                error |-> Rethrow([name |-> recommendations.error,
                                                                   message |-> "engine"])]])
               /\ UNCHANGED <<recommendation_sets, recommendation_items, now, known>>
          ELSE \/ \E at \in WriteTimes(now) :
                    LET setToInsert ==
                            [id |-> Uuid(c.gen), user_id |-> c.userId,
                             summary |-> recommendations.summary]
                        set == Created_row(setToInsert, at)
                        called == [c EXCEPT !.recommendations = recommendations.recommendations,
                                            !.recommendationSet = set, !.next = 1,
                                            !.pc = "createRecommendationItem",
                                            !.log = Logged(c, "createRecommendationSet")]
                    IN /\ recommendation_sets' = recommendation_sets \cup {set}
                       /\ known' = known \cup {set.id}
                       /\ now' = at
                       /\ Step(p, IF recommendations.recommendations = <<>>
                                  THEN Returned(called, WithItems(set, <<>>))
                                  ELSE called)
                       /\ UNCHANGED recommendation_items
               \/ /\ Step(p, Raised(c, "createRecommendationSet"))
                  /\ UNCHANGED <<recommendation_sets, recommendation_items, now, known>>
    /\ UNCHANGED gens

\* a variant that takes the set and its items back when an insert fails
Generate_createRecommendationItem_rollback(p) ==
    LET c == calls[p] IN
    /\ c.op = "generate" /\ c.pc = "createRecommendationItem"
    /\ \/ \E at \in WriteTimes(now) :
             LET rec   == c.recommendations[c.next]
                 item  == Created_row(itemToInsert(rec, ItemUuid(c.gen, c.next),
                                                   c.recommendationSet.id), at)
                 items == Append(c.items, mapRecommendationItemFromDb(item))
                 called == [c EXCEPT !.items = items, !.next = c.next + 1,
                                     !.log = Logged(c, "createRecommendationItem")]
             IN /\ recommendation_items' = recommendation_items \cup {item}
                /\ now' = at
                /\ Step(p, IF c.next = Len(c.recommendations)
                           THEN Returned(called, WithItems(c.recommendationSet, items))
                           ELSE called)
                /\ UNCHANGED recommendation_sets
       \/ /\ Step(p, Raised(c, "createRecommendationItem"))
          /\ recommendation_sets' = DeleteOneSet(recommendation_sets, c.recommendationSet.id)
          /\ recommendation_items' =
                DeleteManyItems(recommendation_items, c.recommendationSet.id)
          /\ UNCHANGED now
    /\ UNCHANGED <<gens, known>>

Generate_createRecommendationItem(p) ==
    LET c == calls[p] IN
    /\ c.op = "generate" /\ c.pc = "createRecommendationItem"
    /\ \/ \E at \in WriteTimes(now) :
             LET rec   == c.recommendations[c.next]
                 item  == Created_row(itemToInsert(rec, ItemUuid(c.gen, c.next),
                                                   c.recommendationSet.id), at)
                 items == Append(c.items, mapRecommendationItemFromDb(item))
                 called == [c EXCEPT !.items = items, !.next = c.next + 1,
                                     !.log = Logged(c, "createRecommendationItem")]
             IN /\ recommendation_items' = recommendation_items \cup {item}
                /\ now' = at
                /\ Step(p, IF c.next = Len(c.recommendations)
                       THEN Returned(called, WithItems(c.recommendationSet, items))
                       ELSE called)
       \/ /\ Step(p, Raised(c, "createRecommendationItem"))
          /\ UNCHANGED <<recommendation_items, now>>
    /\ UNCHANGED <<recommendation_sets, gens, known>>

----------------------------------------------------------------------------
(* getUserRecommendations(userId)                                           *)

GetUser_getRecommendationSets(p) ==
    /\ Free(p)
    /\ \E userId \in Users :
          LET c == [op |-> "getUserRecommendations", pc |-> "getRecommendationSets",
                    userId |-> userId, sets |-> <<>>, next |-> 1, value |-> <<>>,
                    log |-> <<>>, result |-> <<>>]
          IN \/ \E sets \in getRecommendationSets(recommendation_sets, userId) :
                   LET called == [c EXCEPT !.sets = sets, !.pc = "getRecommendationItems",
                                           !.log = Logged(c, "getRecommendationSets")]
                   IN Step(p, IF sets = <<>> THEN Returned(called, <<>>) ELSE called)
             \/ Step(p, Raised(c, "getRecommendationSets"))
    /\ UNCHANGED <<recommendation_sets, recommendation_items, now, gens, known>>

GetUser_getRecommendationItems(p) ==
    LET c == calls[p] IN
    /\ c.op = "getUserRecommendations" /\ c.pc = "getRecommendationItems"
    /\ \/ \E rows \in getRecommendationItems(recommendation_items, c.sets[c.next].id) :
             LET items  == [i \in DOMAIN rows |-> mapRecommendationItemFromDb(rows[i])]
                 value  == Append(c.value, WithItems(c.sets[c.next], items))
                 called == [c EXCEPT !.value = value, !.next = c.next + 1,
                                     !.log = Logged(c, "getRecommendationItems")]
             IN Step(p, IF c.next = Len(c.sets) THEN Returned(called, value) ELSE called)
       \/ Step(p, Raised(c, "getRecommendationItems"))
    /\ UNCHANGED <<recommendation_sets, recommendation_items, now, gens, known>>

----------------------------------------------------------------------------
(* getRecommendationSet(setId).  The absent result is Null.                 *)

Null == [null |-> TRUE]

\* a variant without the test for an absent set: it goes on to the items and
\* fails on the absent set
GetSet_getRecommendationSet_unguarded(p) ==
    /\ Free(p)
    /\ \E setId \in AskedIds :
          LET c == [op |-> "getRecommendationSet", pc |-> "getRecommendationSet",
                    setId |-> setId, set |-> <<>>, log |-> <<>>, result |-> <<>>]
          IN \/ \E found \in getRecommendationSet(recommendation_sets, setId) :
                   LET called == [c EXCEPT !.set = found, !.pc = "getRecommendationItems",
                                           !.log = Logged(c, "getRecommendationSet")]
                   IN Step(p, IF found = <<>>
                              THEN [called EXCEPT
                                      !.pc = "done",
                                      !.log = Logged(called, "getRecommendationItems"),
                                      !.result = [ok |-> FALSE,
                                                  error |-> [name |-> "TypeError",
                                                             message |-> "set"]]]
                              ELSE called)
             \/ Step(p, Raised(c, "getRecommendationSet"))
    /\ UNCHANGED <<recommendation_sets, recommendation_items, now, gens, known>>

GetSet_getRecommendationSet(p) ==
    /\ Free(p)
    /\ \E setId \in AskedIds :
          LET c == [op |-> "getRecommendationSet", pc |-> "getRecommendationSet",
                    setId |-> setId, set |-> <<>>, log |-> <<>>, result |-> <<>>]
          IN \/ \E found \in getRecommendationSet(recommendation_sets, setId) :
                   LET called == [c EXCEPT !.set = found, !.pc = "getRecommendationItems",
                                           !.log = Logged(c, "getRecommendationSet")]
                   IN Step(p, IF found = <<>> THEN Returned(called, Null) ELSE called)
             \/ Step(p, Raised(c, "getRecommendationSet"))
    /\ UNCHANGED <<recommendation_sets, recommendation_items, now, gens, known>>

GetSet_getRecommendationItems(p) ==
    LET c == calls[p] IN
    /\ c.op = "getRecommendationSet" /\ c.pc = "getRecommendationItems"
    /\ \/ \E rows \in getRecommendationItems(recommendation_items, c.setId) :
             LET items == [i \in DOMAIN rows |-> mapRecommendationItemFromDb(rows[i])]
             IN Step(p, Returned([c EXCEPT !.log = Logged(c, "getRecommendationItems")],
                             WithItems(c.set[1], items)))
       \/ Step(p, Raised(c, "getRecommendationItems"))
    /\ UNCHANGED <<recommendation_sets, recommendation_items, now, gens, known>>

----------------------------------------------------------------------------
(* deleteRecommendationSet(setId): the storage method awaits deleteOne on   *)
(* the sets, then deleteMany on the items; either may raise.                *)

Delete_deleteOne(p) ==
    /\ Free(p)
    /\ \E setId \in AskedIds :
          LET c == [op |-> "deleteRecommendationSet", pc |-> "deleteOne",
                    setId |-> setId, log |-> <<>>, result |-> <<>>]
          IN \/ /\ recommendation_sets' = DeleteOneSet(recommendation_sets, setId)
                /\ Step(p, [c EXCEPT !.pc = "deleteMany"])
             \/ /\ Step(p, Raised(c, "deleteRecommendationSet"))
                /\ UNCHANGED recommendation_sets
    /\ UNCHANGED <<recommendation_items, now, gens, known>>

Delete_deleteMany(p) ==
    LET c == calls[p] IN
    /\ c.op = "deleteRecommendationSet" /\ c.pc = "deleteMany"
    /\ \/ /\ recommendation_items' = DeleteManyItems(recommendation_items, c.setId)
          /\ Step(p, Returned([c EXCEPT !.log = Logged(c, "deleteRecommendationSet")], <<>>))
       \/ /\ Step(p, Raised(c, "deleteRecommendationSet"))
          /\ UNCHANGED recommendation_items
    /\ UNCHANGED <<recommendation_sets, now, gens, known>>

----------------------------------------------------------------------------
(* The service with its store: concurrent clients                           *)

\* the engine variables are not in use here
EngineIdle ==
    /\ einput = [userId |-> "u1", analysisResults |-> <<>>, chatHistory |-> <<>>,
                 currentSeason |-> "none"]
    /\ eclock = [t0 |-> 0, ticks |-> {}]
    /\ eoutput = <<>>

Init == SInit /\ EngineIdle

Next ==
    \E p \in Procs :
        \/ Generate_getAnalysisResults(p) /\ UNCHANGED evars
        \/ Generate_getConversations(p) /\ UNCHANGED evars
        \/ Generate_getMessages(p) /\ UNCHANGED evars
        \/ Generate_createRecommendationSet(p) /\ UNCHANGED evars
        \/ Generate_createRecommendationItem(p) /\ UNCHANGED evars
        \/ GetUser_getRecommendationSets(p) /\ UNCHANGED evars
        \/ GetUser_getRecommendationItems(p) /\ UNCHANGED evars
        \/ GetSet_getRecommendationSet(p) /\ UNCHANGED evars
        \/ GetSet_getRecommendationItems(p) /\ UNCHANGED evars
        \/ Delete_deleteOne(p) /\ UNCHANGED evars
        \/ Delete_deleteMany(p) /\ UNCHANGED evars

Spec == Init /\ [][Next]_vars

----------------------------------------------------------------------------
(* Properties of the service and its store, under Spec.                     *)
(* A call that has just ended is returned[1].call: its log lists the store  *)
(* operations it performed, in order, each with the error it raised if any. *)

Fetches == {"getAnalysisResults", "getConversations", "getMessages"}

ItemsOf(items, id) == {i \in items : i.set_id = id}

StoredIds == {s.id : s \in recommendation_sets}

\* the call of operation op that has just ended
Ended(op) == returned # <<>> /\ returned[1].call.op = op

\* the last store operation of a call raised
LastRaised(call) == call.log # <<>> /\ call.log[Len(call.log)].error # <<>>

\* client p ends a call in this step
Ends(p) == returned' # <<>> /\ returned'[1].proc = p

\* C2: at all times every stored item carries the id of a stored set.
C2_ItemsReferenceStoredSets ==
    \A i \in recommendation_items : i.set_id \in StoredIds

\* C3: when generateRecommendations returns, the store holds as many items
\* of the new set as the engine selected candidates, at most ten, and the
\* returned item list is as long.
C3_StoredCountIsSelectedCount ==
    (Ended("generate") /\ returned[1].call.result.ok) =>
        LET call  == returned[1].call
            value == call.result.value
        IN /\ Cardinality(ItemsOf(recommendation_items, value.id)) = Len(call.recommendations)
           /\ Len(call.recommendations) <= MaxCandidates
           /\ Len(value.items) = Len(call.recommendations)

\* client p takes a step of deleteRecommendationSet(id)
DeleteMoves(p, id) ==
    \/ Free(p) /\ calls'[p].op = "deleteRecommendationSet" /\ calls'[p].setId = id
    \/ /\ Free(p) /\ Ends(p)
       /\ returned'[1].call.op = "deleteRecommendationSet"
       /\ returned'[1].call.setId = id
    \/ /\ calls[p].op = "deleteRecommendationSet" /\ calls[p].setId = id
       /\ calls'[p] # calls[p]

\* C4: when deleteRecommendationSet(id) completes, no set has the id, no item
\* has it as set_id and the item lookup for it returns the empty list; the
\* steps of the call leave the sets and items of other ids as they were.
C4_DeleteRemovesSetAndItems ==
    /\ [](  (Ended("deleteRecommendationSet") /\ returned[1].call.result.ok) =>
              LET id == returned[1].call.setId
              IN /\ id \notin StoredIds
                 /\ ItemsOf(recommendation_items, id) = {}
                 /\ getRecommendationItems(recommendation_items, id) = {<<>>}  )
    /\ [][ \A p \in Procs : \A id \in AskedIds :
              DeleteMoves(p, id) =>
                 /\ {s \in recommendation_sets' : s.id # id}
                      = {s \in recommendation_sets : s.id # id}
                 /\ {i \in recommendation_items' : i.set_id # id}
                      = {i \in recommendation_items : i.set_id # id} ]_vars

\* a delete of a set that was stored has completed, and other rows are left
C4_Witness ==
    /\ Ended("deleteRecommendationSet")
    /\ returned[1].call.result.ok
    /\ returned[1].call.setId \in known
    /\ recommendation_sets # {}
    /\ recommendation_items # {}

\* client p takes a step of generateRecommendations that awaits a fetch
GenerateFetchMoves(p) ==
    \/ Free(p) /\ calls'[p].op = "generate"
    \/ Free(p) /\ Ends(p) /\ returned'[1].call.op = "generate"
    \/ /\ calls[p].op = "generate"
       /\ calls[p].pc \in {"getConversations", "getMessages"}
       /\ calls'[p] # calls[p]

\* C5: a generateRecommendations call in which a fetch raised has failed and
\* has performed no write, and its steps up to the failure left the sets and
\* the items as they were.
C5_FailedFetchWritesNothing ==
    /\ [](  Ended("generate") =>
              LET call == returned[1].call
              IN (\E k \in DOMAIN call.log :
                      call.log[k].op \in Fetches /\ call.log[k].error # <<>>)
                   => /\ ~call.result.ok
                      /\ \A k \in DOMAIN call.log : call.log[k].op \in Fetches  )
    /\ [][ \A p \in Procs :
              GenerateFetchMoves(p) =>
                 UNCHANGED <<recommendation_sets, recommendation_items>> ]_vars

\* the messages of a conversation could not be fetched while a set was stored
C5_Witness ==
    /\ Ended("generate")
    /\ LastRaised(returned[1].call)
    /\ returned[1].call.log[Len(returned[1].call.log)].op = "getMessages"
    /\ recommendation_sets # {}
    /\ recommendation_items # {}

\* C6: the error a store operation raises ends the call at once with that
\* error as its outcome: no operation, the failed one included, follows it.
C6_ErrorsPropagatedNoRetry ==
    /\ \A p \in Procs :
          ~Free(p) => \A k \in DOMAIN calls[p].log : calls[p].log[k].error = <<>>
    /\ returned # <<>> =>
          LET call == returned[1].call
          IN /\ \A k \in DOMAIN call.log :
                   call.log[k].error # <<>> =>
                      /\ k = Len(call.log)
                      /\ ~call.result.ok
                      /\ call.result.error = call.log[k].error[1]
             /\ (~call.result.ok /\ call.result.error.name # "TypeError")
                   => LastRaised(call)

\* an insert raised after other operations of the call had succeeded
C6_Witness ==
    /\ Ended("generate")
    /\ LastRaised(returned[1].call)
    /\ Len(returned[1].call.log) > 4
    /\ returned[1].call.log[Len(returned[1].call.log)].op = "createRecommendationItem"
    /\ ~returned[1].call.result.ok

\* client p takes a step of generateRecommendations
GenerateMoves(p) ==
    \/ GenerateFetchMoves(p)
    \/ calls[p].op = "generate" /\ calls'[p] # calls[p]

C8_AbsentSetIsNull ==
    /\ [](  Ended("getRecommendationSet") =>
              LET call == returned[1].call
              IN /\ ~call.result.ok => LastRaised(call)
                 /\ call.result = [ok |-> TRUE, value |-> Null] =>
                       call.log = <<[op |-> "getRecommendationSet", error |-> <<>>]>>  )
    /\ [][ \A p \in Procs :
              /\ ( /\ Free(p) /\ calls'[p].op = "getRecommendationSet" )
                   => calls'[p].setId \in StoredIds
              /\ ( /\ Free(p) /\ Ends(p)
                   /\ returned'[1].call.op = "getRecommendationSet"
                   /\ returned'[1].call.setId \notin StoredIds )
                   => LET call == returned'[1].call
                      IN \/ /\ call.result = [ok |-> TRUE, value |-> Null]
                            /\ call.log = <<[op |-> "getRecommendationSet",
                                             error |-> <<>>]>>
                         \/ /\ call.result =
                                 [ok |-> FALSE,
                                  error |-> StoreError("getRecommendationSet")]
                            /\ call.log = <<[op |-> "getRecommendationSet",
                                             error |->
                                               <<StoreError("getRecommendationSet")>>]>> ]_vars

\* null was returned for the id of a deleted set that still has items
C8_Witness ==
    /\ Ended("getRecommendationSet")
    /\ returned[1].call.result = [ok |-> TRUE, value |-> Null]
    /\ returned[1].call.setId \notin StoredIds
    /\ ItemsOf(recommendation_items, returned[1].call.setId) # {}


\* the confidences the rules of the engine give their candidates
EngineConfidences == {60, 70, 75, 80, 85, 90}

\* the confidence the engine gave the candidate an item was made from: that
\* of the chat insights, of the infeasible optimization and of the
\* break-even rule
EngineConfidence(item) ==
    CASE item.source = "chat" -> 60
      [] item.title = <<"Resource Constraints Too Tight">> -> 90
      [] item.title = <<"Favorable Break-Even Point">> -> 85

\* C18: the confidence of an item, stored as decimal text and mapped back,
\* is the confidence the engine gave the candidate: in the items
\* generateRecommendations returns and in those a later
\* getRecommendationSet or getUserRecommendations returns, and for each of
\* the six confidences of the engine.
C18_ConfidenceRoundTrip ==
    /\ \A h \in EngineConfidences : StringToConfidence(ConfidenceToString(h)) = h
    /\ \A i \in recommendation_items : StringToConfidence(i.confidence) = EngineConfidence(i)
    /\ (Ended("generate") /\ returned[1].call.result.ok) =>
          LET call  == returned[1].call
              items == call.result.value.items
          IN \A k \in 1..Len(items) : items[k].confidence = call.recommendations[k].confidence
    /\ (/\ Ended("getRecommendationSet")
        /\ returned[1].call.result.ok
        /\ returned[1].call.result.value # Null) =>
          LET items == returned[1].call.result.value.items
          IN \A k \in 1..Len(items) : items[k].confidence = EngineConfidence(items[k])
    /\ (Ended("getUserRecommendations") /\ returned[1].call.result.ok) =>
          LET value == returned[1].call.result.value
          IN \A s \in 1..Len(value) : \A k \in 1..Len(value[s].items) :
                value[s].items[k].confidence = EngineConfidence(value[s].items[k])

\* a set was retrieved with an item whose confidence, 0.85, was stored as
\* the text 0.85
C18_Witness ==
    /\ Ended("getRecommendationSet")
    /\ returned[1].call.result.ok
    /\ returned[1].call.result.value # Null
    /\ \E k \in 1..Len(returned[1].call.result.value.items) :
          /\ returned[1].call.result.value.items[k].confidence = 85
          /\ \E i \in recommendation_items :
                /\ i.id = returned[1].call.result.value.items[k].id
                /\ i.confidence = <<"0", ".", "8", "5">>

\* the stored messages of the conversations of a user
UserMessages(userId) ==
    { m \in chat_messages :
        \E c \in chat_conversations : c.user_id = userId /\ m.conversation_id = c.id }

\* C19: the chat history generateRecommendations hands to the engine holds
\* every stored message of every conversation of the user, however many
\* messages a conversation has.
C19_EveryMessageHandedToEngine ==
    \A p \in Procs :
        (calls[p].op = "generate" /\ calls[p].pc = "createRecommendationSet") =>
            { calls[p].chatMessages[i].id : i \in 1..Len(calls[p].chatMessages) }
              = { m.id : m \in UserMessages(calls[p].userId) }

\* the payloads generateRecommendations returned for the set of an id
HandedFor(id) == { h \in handed : h.id = id }

\* the ids of a list of items, in the order of the list
ItemIds(items) == [k \in 1..Len(items) |-> items[k].id]

\* the elements of a list
Elements(s) == { s[k] : k \in 1..Len(s) }

\* the sets, each with its items, in the result of the retrieval that has
\* just ended: those of getUserRecommendations, the one of
\* getRecommendationSet, or none
ReadSets ==
    IF returned = <<>> THEN <<>>
    ELSE IF ~returned[1].call.result.ok THEN <<>>
    ELSE IF returned[1].call.op = "getUserRecommendations"
         THEN returned[1].call.result.value
    ELSE IF returned[1].call.op = "getRecommendationSet"
            /\ returned[1].call.result.value # Null
         THEN <<returned[1].call.result.value>>
    ELSE <<>>

\* C28: a retrieval of a set that generateRecommendations has written
\* completely and returned, and that no delete has touched, gives the items
\* of the set in the order in which generateRecommendations returned them,
\* the highest ranked first.
C28_RetrievedInRankOrder ==
    \A s \in 1..Len(ReadSets) :
        \A h \in HandedFor(ReadSets[s].id) :
            Len(ReadSets[s].items) = Len(h.items) =>
                ItemIds(ReadSets[s].items) = ItemIds(h.items)

\* the clients whose generateRecommendations call has stored its set and is
\* inserting the items
Writing == { p \in Procs : calls[p].op = "generate" /\ calls[p].pc = "createRecommendationItem" }

\* C29: a retrieval that runs while a generateRecommendations call is
\* inserting the items of its set, or that began before that call returned,
\* gives the new set with all the items the call persists for it, or does
\* not give the set at all.
C29_ReaderSeesAllOrNothing ==
    \A s \in 1..Len(ReadSets) :
        /\ \A p \in Writing :
              ReadSets[s].id = calls[p].recommendationSet.id =>
                 Len(ReadSets[s].items) = Len(calls[p].recommendations)
        /\ \A h \in HandedFor(ReadSets[s].id) :
              Len(ReadSets[s].items) = Len(h.items)

\* C29 as amended: a retrieval gives a set with items of that set alone,
\* each once: items the generating call has inserted, in any number from
\* none to all while that call is running, and all of them when the items
\* were read after the call had returned and no delete has touched the set.
C29_ReaderSeesInsertedItems ==
    \A s \in 1..Len(ReadSets) :
        LET e == ReadSets[s] IN
        /\ \A k \in 1..Len(e.items) : e.items[k].setId = e.id
        /\ \A k, l \in 1..Len(e.items) : e.items[k].id = e.items[l].id => k = l
        /\ \A p \in Writing :
              e.id = calls[p].recommendationSet.id =>
                 Elements(e.items) \subseteq Elements(calls[p].items)
        /\ \A h \in HandedFor(e.id) :
              /\ Elements(e.items) \subseteq Elements(h.items)
              /\ s = Len(ReadSets) => Len(e.items) = Len(h.items)

\* a retrieval gave a set with one item while the call that generates the
\* set, which has selected two candidates, is inserting the items
C29_Witness ==
    \E s \in 1..Len(ReadSets) : \E p \in Writing :
        /\ ReadSets[s].id = calls[p].recommendationSet.id
        /\ Len(ReadSets[s].items) = 1
        /\ Len(calls[p].recommendations) = 2

\* what a caller is shown of an item, but for its id and its time
Shown(item) ==
    [setId |-> item.setId, type |-> item.type, title |-> item.title,
     description |-> item.description, confidence |-> item.confidence,
     source |-> item.source]

\* C30: the id in the payload generateRecommendations returns is the id of
\* the set it stored and the setId of every item it returned and stored; a
\* getRecommendationSet for that id, the set not deleted, returns the userId
\* and the summary of that payload and the same collection of items.
C30_ReturnedIdIsStoredId ==
    /\ (Ended("generate") /\ returned[1].call.result.ok) =>
          LET call  == returned[1].call
              value == call.result.value
              rows  == ItemsOf(recommendation_items, value.id)
          IN /\ value.id = call.recommendationSet.id
             /\ value.userId = call.userId
             /\ \A k \in 1..Len(value.items) : value.items[k].setId = value.id
             /\ \A s \in recommendation_sets :
                   s.id = value.id => s.user_id = value.userId /\ s.summary = value.summary
             /\ value.id \in StoredIds =>
                   /\ { mapRecommendationItemFromDb(i) : i \in rows } = Elements(value.items)
                   /\ Cardinality(rows) = Len(value.items)
    /\ (/\ Ended("getRecommendationSet")
        /\ returned[1].call.result.ok
        /\ returned[1].call.result.value # Null) =>
          LET value == returned[1].call.result.value IN
          \A h \in HandedFor(value.id) :
              /\ value.userId = h.userId
              /\ value.summary = h.summary
              /\ Len(value.items) = Len(h.items)
              /\ Elements(value.items) = Elements(h.items)
              /\ \A item \in Elements(h.items) :
                    Cardinality({k \in 1..Len(value.items) : Shown(value.items[k]) = Shown(item)})
                      = Cardinality({k \in 1..Len(h.items) : Shown(h.items[k]) = Shown(item)})

\* a set that generateRecommendations returned with two items was retrieved
\* by its id
C30_Witness ==
    /\ Ended("getRecommendationSet")
    /\ returned[1].call.result.ok
    /\ returned[1].call.result.value # Null
    /\ HandedFor(returned[1].call.result.value.id) # {}
    /\ Len(returned[1].call.result.value.items) = 2

====
